---- MODULE Spec2Model ----
(***************************************************************************)
(* Restaurant back-office (gestionnaire_resto): the stock ledger, the      *)
(* order workflow, the invoice/payment chain and the booking chain,        *)
(* modelled from the Django models and views.                              *)
(*                                                                         *)
(* Units.  Every DecimalField(decimal_places=2) is held as an integer      *)
(* number of hundredths (money in cents, quantities in 1/100 of a unit).   *)
(* tax_rate is held in percent (whole percentages only).                   *)
(***************************************************************************)
EXTENDS Integers, Sequences, FiniteSets, Bags, TLC

(* ------------------------------ bounds -------------------------------- *)
MaxMovements == 3
MaxQuantity == 2
InitialStock == 3
MaxInvoiceItems == 2
MaxPayments == 2
MaxReservations == 2
MaxHistory == 3
MaxOrderItems == 2
MaxCalls == 2
MaxCopies == 1

(* ------------------------- stock ledger: data -------------------------- *)
Products == {"p1", "p2"}

\* StockMovement.MOVEMENT_TYPE_CHOICES
MOVEMENT_TYPE_CHOICES == {"IN", "OUT", "ADJUSTMENT", "RETURN", "WASTE"}

\* quantities a form can submit
MovementQuantities == 1..MaxQuantity

\* (minimum_stock, optimal_stock) pairs of a product: both zero (the field
\* defaults), minimum below optimal, optimal below minimum
ThresholdPairs == {<<0, 0>>, <<2, 4>>, <<4, 2>>}

VARIABLES
    quantity_in_stock,   \* Product.quantity_in_stock, per product
    minimum_stock,       \* Product.minimum_stock
    optimal_stock,       \* Product.optimal_stock
    initial_quantity,    \* quantity_in_stock as entered when the product was created
    movements,           \* StockMovement rows: a bag of (product, type, quantity)
    inventory,           \* Inventory rows by inventory_number, each with its InventoryItem rows
    purchase_orders,     \* PurchaseOrder rows by order_number, each with its PurchaseOrderItem rows
    invoices,            \* Invoice rows by id (NoRow when the id is unused)
    invoice_items,       \* InvoiceItem rows: a bag of (invoice, quantity, unit_price)
    payments,            \* Payment rows: a bag of (invoice, amount)
    today,               \* timezone.now().date()
    reservations,        \* Reservation rows by primary key (NoRow when unused)
    next_reservation,    \* the primary key the next Reservation gets
    history,             \* ReservationHistory rows: a bag of (reservation, action)
    orders,              \* Order rows by order_number (NoRow when unused)
    order_items,         \* OrderItem rows: a bag of (order, menu_item, quantity, unit_price)
    categories,          \* AccountCategory rows: a set of (code, account_type)
    transactions,        \* Transaction rows: a set, transaction_number is unique
    instance,            \* an Order object held in memory, amounts not yet stored
    tickets,             \* KitchenTicket rows: a set, ticket_number is unique
    now,                 \* datetime.now() to the second
    inflight,            \* the requests being served side by side, by worker
    rounding,            \* how the database rounds a decimal to the column's scale
    last                 \* the last request served and its outcome

stockVars == <<quantity_in_stock, minimum_stock, optimal_stock, initial_quantity, movements>>

invoiceVars == <<invoices, invoice_items, payments, today>>

bookingVars == <<reservations, next_reservation, history>>

orderVars == <<orders, order_items, categories, transactions, instance, tickets, now>>

vars == <<quantity_in_stock, minimum_stock, optimal_stock, initial_quantity, movements,
          invoices, invoice_items, payments, today,
          reservations, next_reservation, history,
          orders, order_items, categories, transactions, instance, tickets, now,
          inflight, rounding, inventory, purchase_orders, last>>

\* what the requests of one application leave alone
notStock == <<invoiceVars, bookingVars, orderVars, inflight, rounding, inventory, purchase_orders>>
notInvoice == <<stockVars, bookingVars, orderVars, inflight, rounding, inventory, purchase_orders>>
notBooking == <<stockVars, invoiceVars, orderVars, inflight, rounding, inventory, purchase_orders>>

NoRow == [exists |-> FALSE]

\* no invoice, no item, no payment
InvoiceIdle ==
    /\ invoices = [i \in {"i1"} |-> NoRow]
    /\ invoice_items = EmptyBag
    /\ payments = EmptyBag
    /\ today = 0

\* no reservation
BookingIdle ==
    /\ reservations = [r \in 1..MaxReservations |-> NoRow]
    /\ next_reservation = 1
    /\ history = EmptyBag

\* no product and no movement
StockIdle ==
    /\ quantity_in_stock = [p \in {} |-> 0]
    /\ minimum_stock = [p \in {} |-> 0]
    /\ optimal_stock = [p \in {} |-> 0]
    /\ initial_quantity = [p \in {} |-> 0]
    /\ movements = EmptyBag
    /\ inventory = [i \in {} |-> NoRow]
    /\ purchase_orders = [o \in {} |-> NoRow]

\* no order, no account category, no transaction
OrdersIdle ==
    /\ orders = [o \in {} |-> NoRow]
    /\ order_items = EmptyBag
    /\ categories = {}
    /\ transactions = {}
    /\ instance = NoRow
    /\ tickets = {}
    /\ now = 1

\* every request is served alone, from start to end
NoWorkers == [w \in {} |-> NoRow]

NoRequest == [op |-> "none"]

(* ----------------------- stock ledger: operations ---------------------- *)

\* a plausible slip: the optimal threshold tested before the minimum
stock_status_OptimalFirst(p) ==
    IF quantity_in_stock[p] <= 0 THEN "OUT_OF_STOCK"
    ELSE IF quantity_in_stock[p] >= optimal_stock[p] THEN "OPTIMAL"
    ELSE IF quantity_in_stock[p] < minimum_stock[p] THEN "LOW_STOCK"
    ELSE "NORMAL"

\* Product.stock_status(): an if/elif cascade, the first matching branch wins
stock_status(p) ==
    IF quantity_in_stock[p] <= 0 THEN "OUT_OF_STOCK"
    ELSE IF quantity_in_stock[p] < minimum_stock[p] THEN "LOW_STOCK"
    ELSE IF quantity_in_stock[p] < optimal_stock[p] THEN "NORMAL"
    ELSE "OPTIMAL"

\* a plausible slip: a RETURN taken out of the stock instead of put back
MovementEffect_ReturnSubtracts(qty, movement_type, quantity) ==
    IF movement_type = "IN" THEN qty + quantity
    ELSE IF movement_type \in {"OUT", "WASTE", "RETURN"} THEN qty - quantity
    ELSE qty

\* the branch of StockMovement.save() for a new record: the product's new quantity
MovementEffect(qty, movement_type, quantity) ==
    IF movement_type = "IN" THEN qty + quantity
    ELSE IF movement_type \in {"OUT", "WASTE"} THEN qty - quantity
    ELSE IF movement_type = "ADJUSTMENT" THEN qty
    ELSE IF movement_type = "RETURN" THEN qty + quantity
    ELSE qty

\* StockMovement.save() on a new record: product.save(), then the row itself
StockMovement_save(p, movement_type, quantity) ==
    /\ quantity_in_stock' =
         [quantity_in_stock EXCEPT ![p] = MovementEffect(@, movement_type, quantity)]
    /\ movements' = movements (+) SetToBag(
         {[product |-> p, movement_type |-> movement_type, quantity |-> quantity]})

\* views.stock_movement_create, POST with a valid StockMovementForm
stock_movement_create(p, movement_type, quantity) ==
    /\ BagCardinality(movements) < MaxMovements
    /\ StockMovement_save(p, movement_type, quantity)
    /\ last' = [op |-> "stock_movement_create"]
    /\ UNCHANGED <<minimum_stock, optimal_stock, initial_quantity>>
    /\ UNCHANGED notStock

\* the products as the inventory staff entered them (ProductForm)
StockInit ==
    /\ quantity_in_stock \in [Products -> {0, InitialStock}]
    /\ initial_quantity = quantity_in_stock
    /\ \E th \in [Products -> ThresholdPairs] :
         /\ minimum_stock = [p \in Products |-> th[p][1]]
         /\ optimal_stock = [p \in Products |-> th[p][2]]
    /\ movements = EmptyBag
    /\ inventory = [i \in {} |-> NoRow]
    /\ purchase_orders = [o \in {} |-> NoRow]

InitStock ==
    /\ StockInit
    /\ InvoiceIdle
    /\ BookingIdle
    /\ OrdersIdle
    /\ rounding = "ROUND_HALF_EVEN"
    /\ inflight = NoWorkers
    /\ last = NoRequest

NextStock ==
    \E p \in Products, t \in MOVEMENT_TYPE_CHOICES, q \in MovementQuantities :
        stock_movement_create(p, t, q)

SpecStock == InitStock /\ [][NextStock]_vars

(* ------------------------- stock ledger: claims ------------------------ *)

RECURSIVE SumQuantities(_, _)
\* total quantity of the rows of bag B whose kind is in the set S
SumQuantities(B, S) ==
    IF S = {} THEN 0
    ELSE LET m == CHOOSE x \in S : TRUE
         IN  CopiesIn(m, B) * m.quantity + SumQuantities(B, S \ {m})

\* the rows recorded against product p whose type is in the set types
MovementKinds(p, types) ==
    {m \in BagToSet(movements) : m.product = p /\ m.movement_type \in types}

SignedSum(p) ==
    SumQuantities(movements, MovementKinds(p, {"IN", "RETURN"}))
      - SumQuantities(movements, MovementKinds(p, {"OUT", "WASTE"}))

\* C1: after any sequence of StockMovement creations, every product's
\* quantity_in_stock is its initial quantity plus the quantities of its IN and
\* RETURN movements minus those of its OUT and WASTE movements; ADJUSTMENT
\* movements do not enter the sum.
C1_LedgerSum ==
    \A p \in Products : quantity_in_stock[p] = initial_quantity[p] + SignedSum(p)

\* a product that received an entry or return, an exit or waste, and a
\* non-zero adjustment
C1_Witness ==
    \E p \in Products :
        /\ \E m \in MovementKinds(p, {"IN", "RETURN"}) : m.quantity > 0
        /\ \E m \in MovementKinds(p, {"OUT", "WASTE"}) : m.quantity > 0
        /\ \E m \in MovementKinds(p, {"ADJUSTMENT"}) : m.quantity > 0
        /\ quantity_in_stock[p] # initial_quantity[p]

\* C4 as stated: the four ranges read independently of one another, for every
\* combination of quantity and thresholds.
C4_AsStated ==
    \A p \in Products :
        /\ quantity_in_stock[p] <= 0 => stock_status(p) = "OUT_OF_STOCK"
        /\ (0 < quantity_in_stock[p] /\ quantity_in_stock[p] < minimum_stock[p])
              => stock_status(p) = "LOW_STOCK"
        /\ (minimum_stock[p] <= quantity_in_stock[p]
              /\ quantity_in_stock[p] < optimal_stock[p])
              => stock_status(p) = "NORMAL"
        /\ quantity_in_stock[p] >= optimal_stock[p] => stock_status(p) = "OPTIMAL"

\* C4 (amended): stock_status() is OUT_OF_STOCK exactly when quantity <= 0,
\* LOW_STOCK exactly when 0 < quantity < minimum, NORMAL exactly when
\* quantity > 0 and minimum <= quantity < optimal, and OPTIMAL exactly when
\* quantity > 0, quantity >= minimum and quantity >= optimal: the ranges are
\* tested in that order and the first match wins.
C4_FirstMatch ==
    \A p \in Products :
        /\ stock_status(p) = "OUT_OF_STOCK" <=> quantity_in_stock[p] <= 0
        /\ stock_status(p) = "LOW_STOCK" <=>
              (0 < quantity_in_stock[p] /\ quantity_in_stock[p] < minimum_stock[p])
        /\ stock_status(p) = "NORMAL" <=>
              /\ 0 < quantity_in_stock[p]
              /\ minimum_stock[p] <= quantity_in_stock[p]
              /\ quantity_in_stock[p] < optimal_stock[p]
        /\ stock_status(p) = "OPTIMAL" <=>
              /\ 0 < quantity_in_stock[p]
              /\ minimum_stock[p] <= quantity_in_stock[p]
              /\ optimal_stock[p] <= quantity_in_stock[p]

\* a product whose optimal threshold lies below its minimum, holding a quantity
\* between the two after a movement: the status is LOW_STOCK
C4_Witness ==
    \E p \in Products :
        /\ optimal_stock[p] < minimum_stock[p]
        /\ optimal_stock[p] <= quantity_in_stock[p]
        /\ 0 < quantity_in_stock[p]
        /\ quantity_in_stock[p] < minimum_stock[p]
        /\ quantity_in_stock[p] # initial_quantity[p]
        /\ stock_status(p) = "LOW_STOCK"

(* ------------------------- decimal storage ----------------------------- *)

\* Unrounded results of Decimal arithmetic are held in units of 1e-6 of a
\* currency unit; CentScale of them make one hundredth, the scale of every
\* DecimalField(max_digits=10, decimal_places=2) column.
CentScale == 10000

\* n / unit rounded to an integer, n >= 0; a tie goes to the even neighbour
\* (Decimal.quantize under the default context) or away from zero (a numeric
\* column), depending on the database behind the ORM
RoundHalf(n, unit, mode) ==
    LET q == n \div unit
        r == n % unit
    IN  IF 2 * r < unit THEN q
        ELSE IF 2 * r > unit THEN q + 1
        ELSE IF mode = "ROUND_HALF_EVEN" /\ q % 2 = 0 THEN q
        ELSE q + 1

\* a plausible slip: the value truncated to the column's scale
DecimalStore_Truncate(n) ==
    IF n >= 0 THEN n \div CentScale ELSE -((-n) \div CentScale)

\* the value a decimal_places=2 column keeps of an unrounded result, in hundredths
DecimalStore(n) ==
    IF n >= 0 THEN RoundHalf(n, CentScale, rounding)
    ELSE -RoundHalf(-n, CentScale, rounding)

RoundingModes == {"ROUND_HALF_EVEN", "ROUND_HALF_UP"}

(* ----------------------- invoice chain: data --------------------------- *)
Invoices == {"i1"}

\* Invoice.STATUS_CHOICES
Invoice_STATUS_CHOICES ==
    {"DRAFT", "SENT", "PAID", "PARTIALLY_PAID", "OVERDUE", "CANCELLED"}

\* tax_rate values of a form, in percent: 0 and the default 20
TaxRates == {0, 20}

\* the days of the run; due_date is one of them
Days == {0, 1}

\* (quantity, unit_price) of an InvoiceItemForm, in hundredths: 0.50 at 0.01,
\* a line of half a cent, and 3.00 at 1.50
ItemLines == {<<50, 1>>, <<300, 150>>}

(* --------------------- invoice chain: operations ----------------------- *)

\* InvoiceItem.total_price(): quantity * unit_price, in units of 1e-6
InvoiceItem_total_price(item) == item.quantity * item.unit_price * 100

RECURSIVE SumLines(_, _)
\* sum(item.total_price() for item in ...) over the rows of bag B of kind in S
SumLines(B, S) ==
    IF S = {} THEN 0
    ELSE LET it == CHOOSE x \in S : TRUE
         IN  CopiesIn(it, B) * InvoiceItem_total_price(it) + SumLines(B, S \ {it})

\* invoice.items.all() over the item table B
ItemKindsOf(B, i) == {it \in BagToSet(B) : it.invoice = i}

\* a plausible slip: the tax left out of the total
Invoice_calculate_totals_NoTax(B, i, tax_rate) ==
    LET subtotal == SumLines(B, ItemKindsOf(B, i))
        tax_amount == (subtotal * tax_rate) \div 100
    IN  [subtotal |-> subtotal, tax_amount |-> tax_amount, total_amount |-> subtotal]

\* Invoice.calculate_totals() against the item table B: the unrounded
\* subtotal, tax_amount and total_amount, in units of 1e-6 (the subtotal is a
\* multiple of 100 of them, so the division by 100 is exact)
Invoice_calculate_totals(B, i, tax_rate) ==
    LET subtotal == SumLines(B, ItemKindsOf(B, i))
        tax_amount == (subtotal * tax_rate) \div 100
    IN  [subtotal |-> subtotal, tax_amount |-> tax_amount,
         total_amount |-> subtotal + tax_amount]

\* Invoice.remaining_balance()
remaining_balance(inv) == inv.total_amount - inv.paid_amount

\* Invoice.is_overdue()
is_overdue(inv) == inv.due_date < today /\ inv.status \notin {"PAID", "CANCELLED"}

\* a plausible slip: an invoice paid to the cent not counted as paid
update_status_StrictPaid(inv) ==
    IF inv.paid_amount > inv.total_amount THEN "PAID"
    ELSE IF inv.paid_amount > 0 THEN "PARTIALLY_PAID"
    ELSE IF is_overdue(inv) THEN "OVERDUE"
    ELSE inv.status

\* a plausible slip: the overdue test made before the payment tests
update_status_OverdueFirst(inv) ==
    IF is_overdue(inv) THEN "OVERDUE"
    ELSE IF inv.paid_amount >= inv.total_amount THEN "PAID"
    ELSE IF inv.paid_amount > 0 THEN "PARTIALLY_PAID"
    ELSE inv.status

\* Invoice.update_status(): the status it leaves on the instance
update_status(inv) ==
    IF inv.paid_amount >= inv.total_amount THEN "PAID"
    ELSE IF inv.paid_amount > 0 THEN "PARTIALLY_PAID"
    ELSE IF is_overdue(inv) THEN "OVERDUE"
    ELSE inv.status

\* recalculation as both item views do it: invoice.calculate_totals(), then
\* invoice.save() writing the three results into their two-decimal columns
RecalculatedInvoice(inv, B, i) ==
    LET t == Invoice_calculate_totals(B, i, inv.tax_rate)
    IN  [inv EXCEPT !.subtotal = DecimalStore(t.subtotal),
                    !.tax_amount = DecimalStore(t.tax_amount),
                    !.total_amount = DecimalStore(t.total_amount)]

\* views.invoice_create, POST with a valid InvoiceForm
invoice_create(i, tax_rate, status, due_date) ==
    /\ ~invoices[i].exists
    /\ invoices' = [invoices EXCEPT ![i] =
         [exists |-> TRUE, status |-> status, tax_rate |-> tax_rate,
          due_date |-> due_date, subtotal |-> 0, tax_amount |-> 0,
          total_amount |-> 0, paid_amount |-> 0]]
    /\ last' = [op |-> "invoice_create", invoice |-> i]
    /\ UNCHANGED <<invoice_items, payments, today, notInvoice>>

\* views.invoice_update, POST with a valid InvoiceForm: the form's fields
\* only, the totals stay as stored
invoice_update(i, tax_rate, status, due_date) ==
    /\ invoices[i].exists
    /\ invoices' = [invoices EXCEPT ![i].status = status, ![i].tax_rate = tax_rate,
                                    ![i].due_date = due_date]
    /\ last' = [op |-> "invoice_update", invoice |-> i]
    /\ UNCHANGED <<invoice_items, payments, today, notInvoice>>

\* views.invoice_delete, POST: items and payments go with the invoice (CASCADE)
invoice_delete(i) ==
    /\ invoices[i].exists
    /\ invoices' = [invoices EXCEPT ![i] = NoRow]
    /\ invoice_items' = [it \in {x \in BagToSet(invoice_items) : x.invoice # i}
                            |-> invoice_items[it]]
    /\ payments' = [pm \in {x \in BagToSet(payments) : x.invoice # i} |-> payments[pm]]
    /\ last' = [op |-> "invoice_delete", invoice |-> i]
    /\ UNCHANGED <<today, notInvoice>>

\* views.invoice_add_item, POST with a valid InvoiceItemForm
invoice_add_item(i, quantity, unit_price) ==
    /\ invoices[i].exists
    /\ BagCardinality(invoice_items) < MaxInvoiceItems
    /\ LET item == [invoice |-> i, quantity |-> quantity, unit_price |-> unit_price]
           B == invoice_items (+) SetToBag({item})
       IN  /\ invoice_items' = B
           /\ invoices' = [invoices EXCEPT ![i] = RecalculatedInvoice(@, B, i)]
    /\ last' = [op |-> "invoice_add_item", invoice |-> i]
    /\ UNCHANGED <<payments, today, notInvoice>>

\* views.invoice_item_delete, POST
invoice_item_delete(item) ==
    /\ BagIn(item, invoice_items)
    /\ LET B == invoice_items (-) SetToBag({item})
           i == item.invoice
       IN  /\ invoice_items' = B
           /\ invoices' = [invoices EXCEPT ![i] = RecalculatedInvoice(@, B, i)]
    /\ last' = [op |-> "invoice_item_delete", invoice |-> item.invoice]
    /\ UNCHANGED <<payments, today, notInvoice>>

\* a plausible slip: paid_amount set to the payment instead of raised by it
Payment_save_Overwrite(i, amount) ==
    /\ payments' = payments (+) SetToBag({[invoice |-> i, amount |-> amount]})
    /\ invoices' = [invoices EXCEPT ![i] =
         LET paid == [@ EXCEPT !.paid_amount = amount]
         IN  [paid EXCEPT !.status = update_status(paid)]]

\* Payment.save() on a new record: the row, then the invoice's paid_amount,
\* update_status() and invoice.save()
Payment_save(i, amount) ==
    /\ payments' = payments (+) SetToBag({[invoice |-> i, amount |-> amount]})
    /\ invoices' = [invoices EXCEPT ![i] =
         LET paid == [@ EXCEPT !.paid_amount = @ + amount]
         IN  [paid EXCEPT !.status = update_status(paid)]]

\* amounts a PaymentForm can carry (MinValueValidator(0)): nothing, one cent,
\* the form's initial value remaining_balance()
PaymentAmounts(i) == {a \in {0, 1, remaining_balance(invoices[i])} : a >= 0}

\* views.invoice_add_payment, POST with a valid PaymentForm
invoice_add_payment(i, amount) ==
    /\ invoices[i].exists
    /\ BagCardinality(payments) < MaxPayments
    /\ Payment_save(i, amount)
    /\ last' = [op |-> "invoice_add_payment", invoice |-> i, amount |-> amount,
                status_before |-> invoices[i].status]
    /\ UNCHANGED <<invoice_items, today, notInvoice>>

\* a day passes
NextDay ==
    /\ today + 1 \in Days
    /\ today' = today + 1
    /\ last' = [op |-> "next_day"]
    /\ UNCHANGED <<invoices, invoice_items, payments, notInvoice>>

InitInvoice ==
    /\ InvoiceIdle
    /\ StockIdle
    /\ BookingIdle
    /\ OrdersIdle
    /\ rounding \in RoundingModes
    /\ inflight = NoWorkers
    /\ last = NoRequest

NextInvoice ==
    \/ \E i \in Invoices, r \in TaxRates, st \in Invoice_STATUS_CHOICES, d \in Days :
          invoice_create(i, r, st, d)
    \/ \E i \in Invoices, r \in TaxRates, st \in Invoice_STATUS_CHOICES, d \in Days :
          invoice_update(i, r, st, d)
    \/ \E i \in Invoices : invoice_delete(i)
    \/ \E i \in Invoices, ln \in ItemLines : invoice_add_item(i, ln[1], ln[2])
    \/ \E item \in BagToSet(invoice_items) : invoice_item_delete(item)
    \/ \E i \in {x \in Invoices : invoices[x].exists} :
          \E a \in PaymentAmounts(i) : invoice_add_payment(i, a)
    \/ NextDay

SpecInvoice == InitInvoice /\ [][NextInvoice]_vars

(* ------------------------ invoice chain: claims ------------------------ *)

\* the invoice the last request was about
LastInvoice == invoices[last.invoice]

\* number of Payment rows recorded against invoice i
PaymentCount(i) ==
    LET kinds == {pm \in BagToSet(payments) : pm.invoice = i}
        count[S \in SUBSET kinds] ==
            IF S = {} THEN 0
            ELSE LET pm == CHOOSE x \in S : TRUE
                 IN  CopiesIn(pm, payments) + count[S \ {pm}]
    IN  count[kinds]

\* C2 as stated: right after each payment creation the status is PAID if and
\* only if paid_amount >= total_amount, and PARTIALLY_PAID if and only if
\* 0 < paid_amount < total_amount, whatever the status was before.
C2_AsStated ==
    last.op = "invoice_add_payment" =>
        /\ LastInvoice.status = "PAID" <=>
              LastInvoice.paid_amount >= LastInvoice.total_amount
        /\ LastInvoice.status = "PARTIALLY_PAID" <=>
              /\ 0 < LastInvoice.paid_amount
              /\ LastInvoice.paid_amount < LastInvoice.total_amount

\* C2 (amended): right after each payment creation the status is PAID if
\* paid_amount >= total_amount and PARTIALLY_PAID if 0 < paid_amount <
\* total_amount, and both are equivalences whenever paid_amount > 0; when
\* paid_amount = 0 < total_amount (only zero-amount payments so far) the status
\* is OVERDUE if the due date has passed and the status before was neither PAID
\* nor CANCELLED, and otherwise the status before, PAID and PARTIALLY_PAID
\* included.
C2_StatusAfterPayment ==
    last.op = "invoice_add_payment" =>
        LET inv == LastInvoice
            paid == inv.paid_amount >= inv.total_amount
            partial == 0 < inv.paid_amount /\ inv.paid_amount < inv.total_amount
        IN  /\ paid => inv.status = "PAID"
            /\ partial => inv.status = "PARTIALLY_PAID"
            /\ inv.paid_amount > 0 =>
                  /\ inv.status = "PAID" => paid
                  /\ inv.status = "PARTIALLY_PAID" => partial
            /\ (inv.paid_amount = 0 /\ inv.total_amount > 0) =>
                  inv.status =
                     IF inv.due_date < today
                           /\ last.status_before \notin {"PAID", "CANCELLED"}
                     THEN "OVERDUE" ELSE last.status_before

\* a second, non-zero payment on an OVERDUE invoice that leaves it partially paid
C2_Witness ==
    /\ last.op = "invoice_add_payment"
    /\ last.amount > 0
    /\ last.status_before = "OVERDUE"
    /\ PaymentCount(last.invoice) = 2
    /\ 0 < LastInvoice.paid_amount
    /\ LastInvoice.paid_amount < LastInvoice.total_amount
    /\ LastInvoice.status = "PARTIALLY_PAID"

\* the exact subtotal of the last request's invoice, in units of 1e-6
LastSubtotal == SumLines(invoice_items, ItemKindsOf(invoice_items, last.invoice))

\* C9, second half: a payment equal to the stored total_amount, on an invoice
\* with no earlier payment, gives status PAID and remaining_balance() = 0.
C9_PaymentOfTotal ==
    (/\ last.op = "invoice_add_payment"
     /\ last.amount = LastInvoice.total_amount
     /\ PaymentCount(last.invoice) = 1)
        => /\ LastInvoice.status = "PAID"
           /\ remaining_balance(LastInvoice) = 0

\* C9 as stated: after every item addition and removal the stored subtotal is
\* the sum of quantity x unit_price over the items, tax_amount is subtotal x
\* tax_rate / 100 and total_amount is subtotal + tax_amount; a payment of that
\* total on an invoice with no earlier payment gives PAID and a zero balance.
C9_AsStated ==
    /\ last.op \in {"invoice_add_item", "invoice_item_delete"} =>
          /\ LastInvoice.subtotal * CentScale = LastSubtotal
          /\ LastInvoice.tax_amount * 100 = LastInvoice.subtotal * LastInvoice.tax_rate
          /\ LastInvoice.total_amount = LastInvoice.subtotal + LastInvoice.tax_amount
    /\ C9_PaymentOfTotal

\* C9 (amended): after every item addition and removal the stored subtotal is
\* the sum S of quantity x unit_price over the items rounded to two decimals,
\* tax_amount is S x tax_rate / 100 rounded to two decimals and total_amount is
\* S + S x tax_rate / 100 rounded to two decimals (each result is rounded on
\* its own when it is stored); a payment equal to the stored total_amount on an
\* invoice with no earlier payment gives PAID and remaining_balance() = 0.
C9_RoundedTotals ==
    /\ last.op \in {"invoice_add_item", "invoice_item_delete"} =>
          /\ LastInvoice.subtotal = DecimalStore(LastSubtotal)
          /\ LastInvoice.tax_amount =
                DecimalStore((LastSubtotal * LastInvoice.tax_rate) \div 100)
          /\ LastInvoice.total_amount =
                DecimalStore(LastSubtotal + (LastSubtotal * LastInvoice.tax_rate) \div 100)
    /\ C9_PaymentOfTotal

\* an invoice taxed at 20 with the 3.00 x 1.50 line and the half-cent line,
\* paid in one payment of its stored total
C9_Witness ==
    /\ last.op = "invoice_add_payment"
    /\ PaymentCount(last.invoice) = 1
    /\ last.amount = LastInvoice.total_amount
    /\ LastInvoice.tax_rate = 20
    /\ LastInvoice.tax_amount > 0
    /\ LastSubtotal % CentScale # 0
    /\ LastSubtotal > CentScale
    /\ LastInvoice.status = "PAID"
    /\ remaining_balance(LastInvoice) = 0

\* C10: the status re-evaluation run by a payment creation never sets or
\* leaves OVERDUE on an invoice whose paid_amount >= total_amount, whatever the
\* due date and the status before the call.
C10_PaidNeverOverdue ==
    last.op = "invoice_add_payment" =>
        ~(/\ LastInvoice.status = "OVERDUE"
          /\ LastInvoice.paid_amount >= LastInvoice.total_amount)

\* an OVERDUE invoice past its due date that a payment settles in full
C10_Witness ==
    /\ last.op = "invoice_add_payment"
    /\ last.status_before = "OVERDUE"
    /\ LastInvoice.due_date < today
    /\ LastInvoice.total_amount > 0
    /\ LastInvoice.paid_amount >= LastInvoice.total_amount
    /\ LastInvoice.status = "PAID"

(* ----------------------- booking chain: data --------------------------- *)

\* Reservation.STATUS_CHOICES
Reservation_STATUS_CHOICES == {"PENDING", "CONFIRMED", "CANCELLED", "NO_SHOW", "COMPLETED"}

\* the value of Reservation.table when no table is assigned (null=True)
NoTable == "None"

\* (table, reservation_date, time_slot) values of a form: one booking, the
\* three bookings that differ from it in one column, and one without a table
BookingKeys ==
    {<<"t1", "d1", "12:00">>, <<"t2", "d1", "12:00">>, <<"t1", "d2", "12:00">>,
     <<"t1", "d1", "19:00">>, <<NoTable, "d1", "12:00">>}

\* (table, reservation_date, time_slot) of a row
KeyOf(row) == <<row.table, row.reservation_date, row.time_slot>>

\* primary keys of the rows in the table
ReservationIds == {r \in 1..MaxReservations : reservations[r].exists}

(* --------------------- booking chain: operations ----------------------- *)

\* a plausible slip: unique_together left out of Reservation.Meta
UniqueTogetherOK_NoConstraint(key, self) == TRUE

\* Meta.unique_together = ['table', 'reservation_date', 'time_slot'], as the
\* form's validate_unique and the database index apply it to a row with key
\* `key` and primary key `self` (0 for a row being added): no other row may
\* hold the same three values; a null table takes the row out of the check
UniqueTogetherOK(key, self) ==
    \/ key[1] = NoTable
    \/ \A r \in ReservationIds \ {self} : KeyOf(reservations[r]) # key

\* Table.is_available_at(date, time_slot)
is_available_at(table, date, time_slot) ==
    ~\E r \in ReservationIds :
        /\ KeyOf(reservations[r]) = <<table, date, time_slot>>
        /\ reservations[r].status \in {"PENDING", "CONFIRMED"}

\* ReservationHistory.objects.create(reservation=r, action=action)
HistoryCreate(r, action) ==
    history' = history (+) SetToBag({[reservation |-> r, action |-> action]})

\* the row a creating view saves
NewReservation(key, status) ==
    [exists |-> TRUE, table |-> key[1], reservation_date |-> key[2],
     time_slot |-> key[3], status |-> status,
     confirmed_by |-> "None", confirmed_at |-> "None"]

\* views.reservation_create, POST: an invalid form (uniqueness error) is
\* rendered again; a valid one is saved and a CREATED history row added
reservation_create(key, status) ==
    /\ next_reservation <= MaxReservations
    /\ IF UniqueTogetherOK(key, 0)
       THEN /\ reservations' = [reservations EXCEPT ![next_reservation] =
                                   NewReservation(key, status)]
            /\ next_reservation' = next_reservation + 1
            /\ HistoryCreate(next_reservation, "CREATED")
            /\ last' = [op |-> "reservation_create", key |-> key,
                        result |-> "created"]
       ELSE /\ UNCHANGED <<reservations, next_reservation, history>>
            /\ last' = [op |-> "reservation_create", key |-> key,
                        result |-> "unique_violation"]
    /\ UNCHANGED notBooking

\* views.reservation_quick_create, POST with a valid QuickReservationForm: no
\* table field, status PENDING
reservation_quick_create(date, time_slot) ==
    /\ next_reservation <= MaxReservations
    /\ reservations' = [reservations EXCEPT ![next_reservation] =
                           NewReservation(<<NoTable, date, time_slot>>, "PENDING")]
    /\ next_reservation' = next_reservation + 1
    /\ HistoryCreate(next_reservation, "CREATED")
    /\ last' = [op |-> "reservation_quick_create",
                key |-> <<NoTable, date, time_slot>>, result |-> "created"]
    /\ UNCHANGED notBooking

\* views.reservation_update, POST: the form's fields are saved and a MODIFIED
\* history row added, unless the form is invalid
reservation_update(r, key, status) ==
    /\ r \in ReservationIds
    /\ BagCardinality(history) < MaxHistory
    /\ IF UniqueTogetherOK(key, r)
       THEN /\ reservations' = [reservations EXCEPT
                 ![r].table = key[1], ![r].reservation_date = key[2],
                 ![r].time_slot = key[3], ![r].status = status]
            /\ HistoryCreate(r, "MODIFIED")
            /\ last' = [op |-> "reservation_update", key |-> key, result |-> "saved"]
       ELSE /\ UNCHANGED <<reservations, history>>
            /\ last' = [op |-> "reservation_update", key |-> key,
                        result |-> "unique_violation"]
    /\ UNCHANGED <<next_reservation, notBooking>>

\* views.reservation_delete, POST: the history rows go with the reservation
reservation_delete(r) ==
    /\ r \in ReservationIds
    /\ reservations' = [reservations EXCEPT ![r] = NoRow]
    /\ history' = [h \in {x \in BagToSet(history) : x.reservation # r} |-> history[h]]
    /\ last' = [op |-> "reservation_delete", result |-> "deleted"]
    /\ UNCHANGED <<next_reservation, notBooking>>

\* views.reservation_confirm, POST: Reservation.confirm(user), then the history row
reservation_confirm(r) ==
    /\ r \in ReservationIds
    /\ BagCardinality(history) < MaxHistory
    /\ reservations' = [reservations EXCEPT ![r].status = "CONFIRMED",
                           ![r].confirmed_by = "user", ![r].confirmed_at = "now"]
    /\ HistoryCreate(r, "CONFIRMED")
    /\ last' = [op |-> "reservation_confirm", result |-> "saved"]
    /\ UNCHANGED <<next_reservation, notBooking>>

\* views.reservation_cancel (POST), reservation_complete and
\* reservation_no_show: Reservation.cancel(), complete() or mark_no_show(),
\* then the history row of the same name
reservation_close(r, status) ==
    /\ r \in ReservationIds
    /\ BagCardinality(history) < MaxHistory
    /\ reservations' = [reservations EXCEPT ![r].status = status]
    /\ HistoryCreate(r, status)
    /\ last' = [op |-> "reservation_close", result |-> "saved"]
    /\ UNCHANGED <<next_reservation, notBooking>>

InitBooking ==
    /\ BookingIdle
    /\ StockIdle
    /\ InvoiceIdle
    /\ OrdersIdle
    /\ rounding = "ROUND_HALF_EVEN"
    /\ inflight = NoWorkers
    /\ last = NoRequest

NextBooking ==
    \/ \E key \in BookingKeys, st \in Reservation_STATUS_CHOICES :
          reservation_create(key, st)
    \/ \E key \in BookingKeys : reservation_quick_create(key[2], key[3])
    \/ \E r \in 1..MaxReservations, key \in BookingKeys,
          st \in Reservation_STATUS_CHOICES : reservation_update(r, key, st)
    \/ \E r \in 1..MaxReservations : reservation_delete(r)
    \/ \E r \in 1..MaxReservations : reservation_confirm(r)
    \/ \E r \in 1..MaxReservations, st \in {"CANCELLED", "COMPLETED", "NO_SHOW"} :
          reservation_close(r, st)

SpecBooking == InitBooking /\ [][NextBooking]_vars

(* ------------------------ booking chain: claims ------------------------ *)

\* an active (PENDING or CONFIRMED) reservation holds the table, date and slot
ActiveReservationAt(key) ==
    \E r \in ReservationIds :
        /\ KeyOf(reservations[r]) = key
        /\ reservations[r].status \in {"PENDING", "CONFIRMED"}

\* C3: a reservation_create request for a table, date and slot that an active
\* (PENDING or CONFIRMED) reservation already holds fails with a uniqueness
\* violation: no row is added and the existing rows are unchanged.
C3_DuplicateRejected ==
    [][(/\ last'.op = "reservation_create"
        /\ last'.key[1] # NoTable
        /\ ActiveReservationAt(last'.key))
          => /\ last'.result = "unique_violation"
             /\ reservations' = reservations
             /\ next_reservation' = next_reservation]_vars

\* a creation refused while an active reservation holds the table, date and slot
C3_Witness ==
    /\ last.op = "reservation_create"
    /\ last.result = "unique_violation"
    /\ last.key[1] # NoTable
    /\ ActiveReservationAt(last.key)
    /\ Cardinality(ReservationIds) = 1


(* --------------------- orders and revenue: data ------------------------ *)
Orders == {"o1"}

\* Order.STATUS_CHOICES
Order_STATUS_CHOICES ==
    {"PENDING", "CONFIRMED", "PREPARING", "READY", "SERVED", "PAID", "CANCELLED"}

\* the menu: MenuItem.price in hundredths, 1.05 and 5.00; m1 is tracked with
\* two ingredients, m2 has an ingredient but is not tracked, m3 is tracked and
\* has no ingredient
MenuItems == {"m1", "m2", "m3"}

MenuItem_price == [m \in MenuItems |-> IF m = "m1" THEN 105 ELSE 500]

\* MenuItem.track_inventory
track_inventory == [m \in MenuItems |-> m \in {"m1", "m3"}]

\* MenuItemIngredient rows of a menu item, at most one per product
\* (unique_together menu_item, product); quantity_needed in hundredths
ingredients ==
    [m \in MenuItems |->
        IF m = "m1"
        THEN {[product |-> "p1", quantity_needed |-> 1],
              [product |-> "p2", quantity_needed |-> 2]}
        ELSE IF m = "m2" THEN {[product |-> "p1", quantity_needed |-> 1]}
        ELSE {}]

\* OrderItem.quantity values of a form: an integer, at least 1
ItemQuantities == {1, 2}

\* Order.tax_rate values of a form, in percent: 0 and the default 10
OrderTaxRates == {0, 10}

\* Order.discount_amount values of a form, in hundredths
Discounts == {0, 50}

\* the seconds of the run
Instants == {1, 2}

\* a timestamp field left null
NoTime == 0

\* AccountCategory rows a form can submit; code is a string, held as the
\* sequence of its digits: "100", "20" and "7"
CategoryChoices ==
    {[code |-> <<1, 0, 0>>, account_type |-> "EXPENSE"],
     [code |-> <<2, 0>>, account_type |-> "REVENUE"],
     [code |-> <<7>>, account_type |-> "REVENUE"]}

NoCategory == [code |-> <<>>, account_type |-> "None"]

(* ------------------ orders and revenue: operations --------------------- *)

RECURSIVE CodeBefore(_, _)
\* ORDER BY code: strings compare character by character, a prefix first
CodeBefore(a, b) ==
    IF a = <<>> THEN b # <<>>
    ELSE IF b = <<>> THEN FALSE
    ELSE IF Head(a) # Head(b) THEN Head(a) < Head(b)
    ELSE CodeBefore(Tail(a), Tail(b))

\* OrderItem.total_price(): quantity * unit_price, in units of 1e-6
OrderItem_total_price(item) == item.quantity * item.unit_price * CentScale

RECURSIVE SumOrderLines(_, _)
\* sum(item.total_price() for item in ...) over the rows of bag B of kind in S
SumOrderLines(B, S) ==
    IF S = {} THEN 0
    ELSE LET it == CHOOSE x \in S : TRUE
         IN  CopiesIn(it, B) * OrderItem_total_price(it) + SumOrderLines(B, S \ {it})

\* order.items.all() over the item table B
OrderItemsOf(B, o) == {it \in BagToSet(B) : it.order = o}

\* a plausible slip: the subtotal added to the one computed before
Order_calculate_totals_Accumulate(obj, B) ==
    LET subtotal == obj.subtotal + SumOrderLines(B, OrderItemsOf(B, obj.order))
        tax_amount == (subtotal * obj.tax_rate) \div 100
    IN  [obj EXCEPT !.subtotal = subtotal,
                    !.tax_amount = tax_amount,
                    !.total_amount = subtotal + tax_amount - obj.discount_amount]

\* Order.calculate_totals() on the in-memory object obj against the item
\* table B; amounts of obj are in units of 1e-6, tax_rate in percent
Order_calculate_totals(obj, B) ==
    LET subtotal == SumOrderLines(B, OrderItemsOf(B, obj.order))
        tax_amount == (subtotal * obj.tax_rate) \div 100
    IN  [obj EXCEPT !.subtotal = subtotal,
                    !.tax_amount = tax_amount,
                    !.total_amount = subtotal + tax_amount - obj.discount_amount]

\* get_object_or_404(Order, pk): the row as an in-memory object
Order_load(row) ==
    [row EXCEPT !.subtotal = @ * CentScale,
                !.tax_amount = @ * CentScale,
                !.discount_amount = @ * CentScale,
                !.total_amount = @ * CentScale]

\* a plausible slip: the amounts cut to two decimals instead of rounded
Order_save_Truncate(obj) ==
    [obj EXCEPT !.subtotal = DecimalStore_Truncate(@),
                !.tax_amount = DecimalStore_Truncate(@),
                !.discount_amount = DecimalStore_Truncate(@),
                !.total_amount = DecimalStore_Truncate(@)]

\* Order.save(): every amount goes to its decimal_places=2 column
Order_save(obj) ==
    [obj EXCEPT !.subtotal = DecimalStore(@),
                !.tax_amount = DecimalStore(@),
                !.discount_amount = DecimalStore(@),
                !.total_amount = DecimalStore(@)]

\* a new Order row: status, amounts and paid_at at their field defaults
NewOrder(o, tax_rate, discount_amount) ==
    [exists |-> TRUE, order |-> o, status |-> "PENDING",
     confirmed_at |-> NoTime, preparing_at |-> NoTime, ready_at |-> NoTime,
     served_at |-> NoTime, served_by |-> "None", paid_at |-> NoTime,
     tax_rate |-> tax_rate, discount_amount |-> discount_amount,
     subtotal |-> 0, tax_amount |-> 0, total_amount |-> 0]

\* views.order_create, POST with a valid OrderForm (order_number is unique)
order_create(o, tax_rate, discount_amount) ==
    /\ ~orders[o].exists
    /\ orders' = [orders EXCEPT ![o] = NewOrder(o, tax_rate, discount_amount)]
    /\ last' = [op |-> "order_create", order |-> o, result |-> "ok"]
    /\ UNCHANGED <<order_items, categories, transactions, instance, tickets, now>>
    /\ UNCHANGED <<stockVars, invoiceVars, bookingVars, inflight, rounding, inventory, purchase_orders>>

\* views.order_quick_create: tax_rate and discount_amount at their defaults
order_quick_create(o) ==
    /\ ~orders[o].exists
    /\ orders' = [orders EXCEPT ![o] = NewOrder(o, 10, 0)]
    /\ last' = [op |-> "order_quick_create", order |-> o, result |-> "ok"]
    /\ UNCHANGED <<order_items, categories, transactions, instance, tickets, now>>
    /\ UNCHANGED <<stockVars, invoiceVars, bookingVars, inflight, rounding, inventory, purchase_orders>>

\* a plausible slip: the ingredient quantity not multiplied by the item quantity
DeductionMovements_PerItem(m, quantity) ==
    {[product |-> g.product, movement_type |-> "OUT",
      quantity |-> g.quantity_needed] : g \in ingredients[m]}

\* the StockMovement rows OrderItem.deduct_from_inventory() creates
DeductionMovements(m, quantity) ==
    {[product |-> g.product, movement_type |-> "OUT",
      quantity |-> g.quantity_needed * quantity] : g \in ingredients[m]}

\* OrderItem.deduct_from_inventory(): one StockMovement.save() per ingredient
deduct_from_inventory(m, quantity) ==
    LET rows == DeductionMovements(m, quantity)
    IN  /\ quantity_in_stock' =
             [p \in DOMAIN quantity_in_stock |->
                 IF \E mv \in rows : mv.product = p
                 THEN MovementEffect(quantity_in_stock[p], "OUT",
                         (CHOOSE mv \in rows : mv.product = p).quantity)
                 ELSE quantity_in_stock[p]]
        /\ movements' = movements (+) SetToBag(rows)

\* the stock movements saving a new item of menu item m would add
MovementsNeeded(m) == IF track_inventory[m] THEN Cardinality(ingredients[m]) ELSE 0

\* views.order_add_items, POST with a valid OrderItemForm: OrderItem.save()
\* with its stock deduction, then order.calculate_totals() and order.save()
order_add_items(o, m, quantity) ==
    LET item == [order |-> o, menu_item |-> m, quantity |-> quantity,
                 unit_price |-> MenuItem_price[m]]
    IN  /\ orders[o].exists
        /\ BagCardinality(order_items) < MaxOrderItems
        /\ BagCardinality(movements) + MovementsNeeded(m) <= MaxMovements
        /\ order_items' = order_items (+) SetToBag({item})
        /\ IF track_inventory[m]
           THEN deduct_from_inventory(m, quantity)
           ELSE UNCHANGED <<quantity_in_stock, movements>>
        /\ orders' = [orders EXCEPT ![o] =
              Order_save(Order_calculate_totals(Order_load(@), order_items'))]
        /\ last' = [op |-> "order_add_items", order |-> o, result |-> "ok"]
        /\ UNCHANGED <<minimum_stock, optimal_stock, initial_quantity>>
        /\ UNCHANGED <<categories, transactions, instance, tickets, now>>
        /\ UNCHANGED <<invoiceVars, bookingVars, inflight, rounding, inventory, purchase_orders>>

\* a plausible slip: the deletion giving back to the stock what the item's
\* insertion took
order_item_delete_Restock(item) ==
    /\ BagIn(item, order_items)
    /\ order_items' = order_items (-) SetToBag({item})
    /\ orders' = [orders EXCEPT ![item.order] =
          Order_save(Order_calculate_totals(Order_load(@), order_items'))]
    /\ quantity_in_stock' =
          [p \in DOMAIN quantity_in_stock |->
              IF track_inventory[item.menu_item]
                 /\ \E g \in ingredients[item.menu_item] : g.product = p
              THEN quantity_in_stock[p]
                      + (CHOOSE g \in ingredients[item.menu_item] :
                            g.product = p).quantity_needed * item.quantity
              ELSE quantity_in_stock[p]]
    /\ last' = [op |-> "order_item_delete", order |-> item.order, result |-> "ok"]
    /\ UNCHANGED <<minimum_stock, optimal_stock, initial_quantity, movements>>
    /\ UNCHANGED <<categories, transactions, instance, tickets, now>>
    /\ UNCHANGED <<invoiceVars, bookingVars, inflight, rounding, inventory, purchase_orders>>

\* views.order_item_delete, POST: item.delete(), then order.calculate_totals()
\* and order.save()
order_item_delete(item) ==
    /\ BagIn(item, order_items)
    /\ order_items' = order_items (-) SetToBag({item})
    /\ orders' = [orders EXCEPT ![item.order] =
          Order_save(Order_calculate_totals(Order_load(@), order_items'))]
    /\ last' = [op |-> "order_item_delete", order |-> item.order, result |-> "ok"]
    /\ UNCHANGED <<categories, transactions, instance, tickets, now>>
    /\ UNCHANGED <<stockVars, invoiceVars, bookingVars, inflight, rounding, inventory, purchase_orders>>

\* AccountCategory.objects.filter(account_type='REVENUE')
RevenueCategories == {c \in categories : c.account_type = "REVENUE"}

\* .first() under Meta.ordering = ['code']: None when there is no such row
revenue_category ==
    IF RevenueCategories = {} THEN NoCategory
    ELSE CHOOSE c \in RevenueCategories :
            \A d \in RevenueCategories \ {c} : CodeBefore(c.code, d.code)

\* the Transaction Order.mark_paid() creates for the order row
RevenueTransaction(row) ==
    [transaction_number |-> row.order, transaction_type |-> "INCOME",
     category |-> revenue_category.code, amount |-> row.total_amount]

\* a plausible slip: .get() in place of .filter().first(), raising when
\* there is no REVENUE category
mark_paid_result_Get(o) ==
    IF revenue_category = NoCategory THEN "DoesNotExist"
    ELSE IF \E t \in transactions : t.transaction_number = o THEN "IntegrityError"
    ELSE "ok"

\* a plausible slip: transaction_number without unique=True
mark_paid_result_NoUnique(o) == "ok"

\* how Order.mark_paid() ends: Transaction.objects.create() raises when
\* transaction_number TXN-<order_number> is taken (unique=True)
mark_paid_result(o) ==
    IF revenue_category = NoCategory THEN "ok"
    ELSE IF \E t \in transactions : t.transaction_number = o THEN "IntegrityError"
    ELSE "ok"

\* views.order_mark_paid: Order.mark_paid() saves status and paid_at, then
\* creates the revenue Transaction if a REVENUE category exists
order_mark_paid(o) ==
    /\ orders[o].exists
    /\ orders' = [orders EXCEPT ![o].status = "PAID", ![o].paid_at = now]
    /\ transactions' =
          IF revenue_category # NoCategory /\ mark_paid_result(o) = "ok"
          THEN transactions \cup {RevenueTransaction(orders[o])}
          ELSE transactions
    /\ last' = [op |-> "order_mark_paid", order |-> o, result |-> mark_paid_result(o)]
    /\ UNCHANGED <<order_items, categories, instance, tickets, now>>
    /\ UNCHANGED <<stockVars, invoiceVars, bookingVars, inflight, rounding, inventory, purchase_orders>>

\* views.account_category_create, POST with a valid AccountCategoryForm
\* (code is unique)
account_category_create(c) ==
    /\ \A d \in categories : d.code # c.code
    /\ categories' = categories \cup {c}
    /\ last' = [op |-> "account_category_create", result |-> "ok"]
    /\ UNCHANGED <<orders, order_items, transactions, instance, tickets, now>>
    /\ UNCHANGED <<stockVars, invoiceVars, bookingVars, inflight, rounding, inventory, purchase_orders>>

\* views.account_category_delete, POST: Transaction.category is
\* on_delete=PROTECT, a category in use is not deleted
account_category_delete(c) ==
    /\ c \in categories
    /\ IF \E t \in transactions : t.category = c.code
       THEN /\ UNCHANGED categories
            /\ last' = [op |-> "account_category_delete", result |-> "ProtectedError"]
       ELSE /\ categories' = categories \ {c}
            /\ last' = [op |-> "account_category_delete", result |-> "ok"]
    /\ UNCHANGED <<orders, order_items, transactions, instance, tickets, now>>
    /\ UNCHANGED <<stockVars, invoiceVars, bookingVars, inflight, rounding, inventory, purchase_orders>>

\* views.transaction_delete, POST
transaction_delete(t) ==
    /\ t \in transactions
    /\ transactions' = transactions \ {t}
    /\ last' = [op |-> "transaction_delete", result |-> "ok"]
    /\ UNCHANGED <<orders, order_items, categories, instance, tickets, now>>
    /\ UNCHANGED <<stockVars, invoiceVars, bookingVars, inflight, rounding, inventory, purchase_orders>>

\* the products the kitchen draws on, no order yet
InitOrders ==
    /\ quantity_in_stock = [p \in Products |-> InitialStock]
    /\ initial_quantity = quantity_in_stock
    /\ minimum_stock = [p \in Products |-> 0]
    /\ optimal_stock = [p \in Products |-> 0]
    /\ movements = EmptyBag
    /\ inventory = [i \in {} |-> NoRow]
    /\ purchase_orders = [o \in {} |-> NoRow]
    /\ orders = [o \in Orders |-> NoRow]
    /\ order_items = EmptyBag
    /\ categories = {}
    /\ transactions = {}
    /\ instance = NoRow
    /\ tickets = {}
    /\ now = 1
    /\ InvoiceIdle
    /\ BookingIdle
    /\ rounding \in RoundingModes
    /\ inflight = NoWorkers
    /\ last = NoRequest

NextOrders ==
    \/ \E o \in Orders, r \in OrderTaxRates, d \in Discounts : order_create(o, r, d)
    \/ \E o \in Orders : order_quick_create(o)
    \/ \E o \in Orders, m \in MenuItems, q \in ItemQuantities : order_add_items(o, m, q)
    \/ \E item \in BagToSet(order_items) : order_item_delete(item)
    \/ \E o \in Orders : order_mark_paid(o)
    \/ \E c \in CategoryChoices : account_category_create(c)
    \/ \E c \in CategoryChoices : account_category_delete(c)
    \/ \E t \in transactions : transaction_delete(t)

SpecOrders == InitOrders /\ [][NextOrders]_vars


(* ------------- Order.calculate_totals() on an object in memory --------- *)

\* the OrderItem rows the table may hold, of the order at hand and of another
TotalsItemKinds ==
    {[order |-> o, menu_item |-> m, quantity |-> q, unit_price |-> MenuItem_price[m]] :
        o \in {"o1", "o2"}, m \in {"m1", "m2"}, q \in ItemQuantities}

\* the item tables: up to MaxCopies rows of each kind
ItemTables ==
    {[k \in {x \in TotalsItemKinds : f[x] > 0} |-> f[k]] :
        f \in [TotalsItemKinds -> 0..MaxCopies]}

\* an Order loaded from its row, whatever totals the row held
LoadedOrders ==
    {Order_load([NewOrder("o1", r, d) EXCEPT
                    !.subtotal = t, !.tax_amount = t, !.total_amount = t]) :
        r \in OrderTaxRates, d \in Discounts, t \in {0, 105}}

\* the calls of calculate_totals() made on the object so far
CallsMade == IF last.op = "none" THEN 0 ELSE last.calls

\* one call of order.calculate_totals(), nothing saved
calculate_totals_call ==
    /\ CallsMade < MaxCalls
    /\ instance' = Order_calculate_totals(instance, order_items)
    /\ last' = [op |-> "calculate_totals", calls |-> CallsMade + 1]
    /\ UNCHANGED <<orders, order_items, categories, transactions, tickets, now>>
    /\ UNCHANGED <<stockVars, invoiceVars, bookingVars, inflight, rounding, inventory, purchase_orders>>

InitTotals ==
    /\ instance \in LoadedOrders
    /\ order_items \in ItemTables
    /\ orders = [o \in {} |-> NoRow]
    /\ categories = {}
    /\ transactions = {}
    /\ tickets = {}
    /\ now = 1
    /\ StockIdle
    /\ InvoiceIdle
    /\ BookingIdle
    /\ rounding = "ROUND_HALF_EVEN"
    /\ inflight = NoWorkers
    /\ last = NoRequest

NextTotals == calculate_totals_call

SpecTotals == InitTotals /\ [][NextTotals]_vars

(* --------------------- orders and revenue: claims ---------------------- *)

\* the order the last request was about
LastOrder == orders[last.order]

\* the exact subtotal of the last request's order, in units of 1e-6
LastOrderSubtotal == SumOrderLines(order_items, OrderItemsOf(order_items, last.order))

\* the exact tax of the last request's order, in units of 1e-6
LastOrderTax == (LastOrderSubtotal * LastOrder.tax_rate) \div 100

\* C5 as stated: after each completed order_add_items or order_item_delete the
\* stored subtotal is the sum of quantity x unit_price over the order's items,
\* tax_amount = subtotal x tax_rate / 100 and total_amount = subtotal +
\* tax_amount - discount_amount.
C5_AsStated ==
    last.op \in {"order_add_items", "order_item_delete"} =>
        /\ LastOrder.subtotal * CentScale = LastOrderSubtotal
        /\ LastOrder.tax_amount * 100 = LastOrder.subtotal * LastOrder.tax_rate
        /\ LastOrder.total_amount =
              LastOrder.subtotal + LastOrder.tax_amount - LastOrder.discount_amount

\* C5 (amended): after each completed order_add_items or order_item_delete the
\* stored subtotal is the sum S of quantity x unit_price over the order's
\* items, the stored tax_amount is S x tax_rate / 100 rounded to two decimals
\* and the stored total_amount is S + S x tax_rate / 100 - discount_amount
\* rounded to two decimals (each result is rounded on its own when stored).
C5_RoundedTotals ==
    last.op \in {"order_add_items", "order_item_delete"} =>
        /\ LastOrder.subtotal * CentScale = LastOrderSubtotal
        /\ LastOrder.tax_amount = DecimalStore(LastOrderTax)
        /\ LastOrder.total_amount =
              DecimalStore(LastOrderSubtotal + LastOrderTax
                              - LastOrder.discount_amount * CentScale)

\* an order taxed at 10 with a discount, one item left after a removal, whose
\* exact tax is not a whole number of hundredths and whose stored total is not
\* the stored subtotal plus the stored tax less the discount
C5_Witness ==
    /\ last.op = "order_item_delete"
    /\ LastOrder.tax_rate = 10
    /\ LastOrder.discount_amount > 0
    /\ LastOrderSubtotal > 0
    /\ LastOrderTax % CentScale # 0
    /\ LastOrder.total_amount #
          LastOrder.subtotal + LastOrder.tax_amount - LastOrder.discount_amount

\* C6: once calculate_totals() has run on an order, running it again with no
\* change to the items, tax_rate or discount_amount in between leaves subtotal,
\* tax_amount and total_amount as the first call left them.
C6_Idempotent ==
    [][last.op = "calculate_totals" =>
          /\ instance'.subtotal = instance.subtotal
          /\ instance'.tax_amount = instance.tax_amount
          /\ instance'.total_amount = instance.total_amount]_vars

\* a second call on an order with items, a tax that is not a whole number of
\* hundredths and a discount, whose row held other totals
C6_Witness ==
    /\ last.op = "calculate_totals"
    /\ last.calls = 2
    /\ instance.subtotal > 0
    /\ instance.tax_amount % CentScale # 0
    /\ instance.discount_amount > 0
    /\ \E it \in BagToSet(order_items) : it.order # instance.order

\* C7: when no REVENUE category exists, mark_paid completes without raising,
\* leaves the order PAID with paid_at set, and the set of Transactions is
\* unchanged.
C7_NoRevenueCategory ==
    [][(last'.op = "order_mark_paid" /\ RevenueCategories = {})
          => /\ last'.result = "ok"
             /\ orders'[last'.order].status = "PAID"
             /\ orders'[last'.order].paid_at \in Instants
             /\ transactions' = transactions]_vars

\* an order with items marked paid while the only category is an EXPENSE one
C7_Witness ==
    /\ last.op = "order_mark_paid"
    /\ last.result = "ok"
    /\ categories # {}
    /\ RevenueCategories = {}
    /\ LastOrder.total_amount > 0
    /\ LastOrder.status = "PAID"
    /\ LastOrder.paid_at \in Instants
    /\ transactions = {}

\* C8 as stated: when a REVENUE category exists, mark_paid creates exactly one
\* Transaction, of type INCOME, whose amount is the order's stored total_amount
\* and whose category is the first REVENUE category in the category ordering.
C8_AsStated ==
    [][(last'.op = "order_mark_paid" /\ RevenueCategories # {})
          => \E t \in transactions' \ transactions :
                /\ transactions' = transactions \cup {t}
                /\ t.transaction_type = "INCOME"
                /\ t.amount = orders[last'.order].total_amount
                /\ t.category = revenue_category.code]_vars


\* the OrderItem row of menu item m and quantity n in order o
ItemRow(o, m, n) ==
    [order |-> o, menu_item |-> m, quantity |-> n, unit_price |-> MenuItem_price[m]]

\* the OUT movements of bag B for product p and quantity q
OutMovements(B, p, q) ==
    CopiesIn([product |-> p, movement_type |-> "OUT", quantity |-> q], B)

\* C11: inserting a new OrderItem of quantity n whose MenuItem has
\* track_inventory = true creates exactly one StockMovement of type OUT per
\* MenuItemIngredient of the MenuItem, of quantity quantity_needed x n, and
\* decreases each ingredient product's quantity_in_stock by that amount; the
\* number of movements created is the number of ingredients, zero when the
\* dish has none.
C11_StockFanOut ==
    [][\A o \in Orders, m \in MenuItems, n \in ItemQuantities :
          (/\ last'.op = "order_add_items"
           /\ order_items' = order_items (+) SetToBag({ItemRow(o, m, n)})
           /\ track_inventory[m])
             => /\ BagCardinality(movements') =
                      BagCardinality(movements) + Cardinality(ingredients[m])
                /\ \A g \in ingredients[m] :
                      /\ OutMovements(movements', g.product, g.quantity_needed * n) =
                            OutMovements(movements, g.product, g.quantity_needed * n) + 1
                      /\ quantity_in_stock'[g.product] =
                            quantity_in_stock[g.product] - g.quantity_needed * n
                /\ \A p \in Products :
                      (\A g \in ingredients[m] : g.product # p)
                          => quantity_in_stock'[p] = quantity_in_stock[p]]_vars

\* an item of quantity 2 of the dish with two ingredients was added after an
\* item of the tracked dish without ingredient: two movements, both stocks lower
C11_Witness ==
    /\ last.op = "order_add_items"
    /\ BagIn(ItemRow("o1", "m1", 2), order_items)
    /\ BagIn(ItemRow("o1", "m3", 1), order_items)
    /\ BagCardinality(movements) = 2
    /\ OutMovements(movements, "p1", 2) = 1
    /\ OutMovements(movements, "p2", 4) = 1
    /\ quantity_in_stock["p1"] = InitialStock - 2
    /\ quantity_in_stock["p2"] = InitialStock - 4


(* ------------- booking chain: two creations side by side --------------- *)
Workers == {"w1", "w2"}

\* a worker that has not received its request yet
Waiting == [pc |-> "waiting"]

\* a plausible slip: the unique index missing from the table, the form's
\* check being the only one
DatabaseUniqueOK_NoIndex(key) == TRUE

\* the unique index the database keeps for Meta.unique_together, as an INSERT
\* of a row with key `key` meets it
DatabaseUniqueOK(key) == UniqueTogetherOK(key, 0)

\* reservation_create, POST, up to form.is_valid(): the form's uniqueness
\* check reads the rows stored at that moment
reservation_create_validate(w, key, status) ==
    /\ inflight[w].pc = "waiting"
    /\ inflight' = [inflight EXCEPT ![w] =
          IF UniqueTogetherOK(key, 0)
          THEN [pc |-> "valid", key |-> key, status |-> status]
          ELSE [pc |-> "done", key |-> key, status |-> status,
                result |-> "unique_violation"]]
    /\ last' = [op |-> "reservation_create_validate", worker |-> w]
    /\ UNCHANGED <<bookingVars, stockVars, invoiceVars, orderVars, rounding, inventory, purchase_orders>>

\* reservation_create, reservation.save(): the INSERT, refused by the
\* database with an IntegrityError when the three values are taken
reservation_create_save(w) ==
    /\ inflight[w].pc = "valid"
    /\ next_reservation <= MaxReservations
    /\ IF DatabaseUniqueOK(inflight[w].key)
       THEN /\ reservations' = [reservations EXCEPT ![next_reservation] =
                                   NewReservation(inflight[w].key, inflight[w].status)]
            /\ next_reservation' = next_reservation + 1
            /\ inflight' = [inflight EXCEPT ![w] =
                  [pc |-> "saved", key |-> @.key, status |-> @.status,
                   reservation |-> next_reservation]]
       ELSE /\ inflight' = [inflight EXCEPT ![w] =
                  [pc |-> "done", key |-> @.key, status |-> @.status,
                   result |-> "IntegrityError"]]
            /\ UNCHANGED <<reservations, next_reservation>>
    /\ last' = [op |-> "reservation_create_save", worker |-> w]
    /\ UNCHANGED <<history, stockVars, invoiceVars, orderVars, rounding, inventory, purchase_orders>>

\* reservation_create, ReservationHistory.objects.create and the redirect
reservation_create_history(w) ==
    /\ inflight[w].pc = "saved"
    /\ HistoryCreate(inflight[w].reservation, "CREATED")
    /\ inflight' = [inflight EXCEPT ![w] =
          [pc |-> "done", key |-> @.key, status |-> @.status, result |-> "created"]]
    /\ last' = [op |-> "reservation_create_history", worker |-> w]
    /\ UNCHANGED <<reservations, next_reservation>>
    /\ UNCHANGED <<stockVars, invoiceVars, orderVars, rounding, inventory, purchase_orders>>

InitBookingRace ==
    /\ BookingIdle
    /\ StockIdle
    /\ InvoiceIdle
    /\ OrdersIdle
    /\ inflight = [w \in Workers |-> Waiting]
    /\ rounding = "ROUND_HALF_EVEN"
    /\ last = NoRequest

NextBookingRace ==
    \/ \E w \in Workers, key \in BookingKeys, st \in Reservation_STATUS_CHOICES :
          reservation_create_validate(w, key, st)
    \/ \E w \in Workers : reservation_create_save(w)
    \/ \E w \in Workers : reservation_create_history(w)

SpecBookingRace == InitBookingRace /\ [][NextBookingRace]_vars

\* the rows holding table, date and slot `key`
RowsAt(key) == {r \in ReservationIds : KeyOf(reservations[r]) = key}

\* C12: under every interleaving of two reservation-creation requests for the
\* same table, reservation_date and time_slot (table not null), at most one
\* row for that triple is persisted; the request that loses the race ends in
\* a failure and never in a second row.
C12_RaceOneRow ==
    /\ \A key \in BookingKeys : key[1] # NoTable => Cardinality(RowsAt(key)) <= 1
    /\ \A w \in Workers : \A v \in Workers \ {w} :
          (/\ inflight[w].pc = "done"
           /\ inflight[v].pc = "done"
           /\ inflight[w].key = inflight[v].key
           /\ inflight[w].key[1] # NoTable)
             => \/ inflight[w].result \in {"unique_violation", "IntegrityError"}
                \/ inflight[v].result \in {"unique_violation", "IntegrityError"}

\* both requests passed the form's check for the same table, date and slot
\* before either was saved: one row, the other request refused by the database
C12_Witness ==
    /\ inflight["w1"].pc = "done"
    /\ inflight["w2"].pc = "done"
    /\ inflight["w1"].key = inflight["w2"].key
    /\ inflight["w1"].key[1] # NoTable
    /\ inflight["w1"].result = "created"
    /\ inflight["w2"].result = "IntegrityError"
    /\ Cardinality(RowsAt(inflight["w1"].key)) = 1


(* ----------------------- roles and module access ----------------------- *)

\* User.ROLE_CHOICES
ROLE_CHOICES ==
    {"ADMIN", "MANAGER", "WAITER", "CHEF", "COOK", "ACCOUNTANT", "RECEPTIONIST"}

Modules == {"personnel", "inventory", "accounting", "bookings", "orders", "analytics"}

\* User.can_manage_personnel()
can_manage_personnel(role) == role \in {"ADMIN", "MANAGER"}

\* User.can_manage_inventory()
can_manage_inventory(role) == role \in {"ADMIN", "MANAGER", "CHEF"}

\* a plausible slip: the manager let into the accounts
can_manage_accounting_WithManager(role) == role \in {"ADMIN", "MANAGER", "ACCOUNTANT"}

\* User.can_manage_accounting()
can_manage_accounting(role) == role \in {"ADMIN", "ACCOUNTANT"}

\* User.can_manage_reservations()
can_manage_reservations(role) == role \in {"ADMIN", "MANAGER", "RECEPTIONIST"}

\* User.can_manage_orders()
can_manage_orders(role) == role \in {"ADMIN", "MANAGER", "WAITER", "CHEF", "COOK"}

\* analytics.views.can_view_analytics, less the authentication test
can_view_analytics(role) == role \in {"ADMIN", "MANAGER"}

\* the test each module's views.py hands to user_passes_test
ModuleTest(module, authenticated, role) ==
    authenticated /\
    CASE module = "personnel" -> can_manage_personnel(role)
      [] module = "inventory" -> can_manage_inventory(role)
      [] module = "accounting" -> can_manage_accounting(role)
      [] module = "bookings" -> can_manage_reservations(role)
      [] module = "orders" -> can_manage_orders(role)
      [] module = "analytics" -> can_view_analytics(role)

\* the views of personnel/views.py
PersonnelViews ==
    {"personnel_dashboard", "department_list", "department_create",
     "department_update", "department_delete", "employee_list",
     "employee_detail", "employee_create", "employee_update",
     "employee_delete", "contract_list", "contract_create",
     "contract_update", "contract_delete", "attendance_list",
     "attendance_create", "attendance_update", "attendance_delete",
     "attendance_bulk_create", "leave_list", "leave_create",
     "leave_update", "leave_delete", "leave_approve", "payroll_list",
     "payroll_create", "payroll_update", "payroll_delete",
     "payroll_detail", "payroll_generate_monthly", "personnel_reports"}

\* the views of inventory/views.py
InventoryViews ==
    {"inventory_dashboard", "category_list", "category_create",
     "category_update", "category_delete", "supplier_list",
     "supplier_create", "supplier_update", "supplier_delete",
     "product_list", "product_detail", "product_create", "product_update",
     "product_delete", "stock_movement_list", "stock_movement_create",
     "stock_movement_delete", "purchase_order_list",
     "purchase_order_detail", "purchase_order_create",
     "purchase_order_update", "purchase_order_delete",
     "purchase_order_add_item", "purchase_order_item_delete",
     "purchase_order_receive", "inventory_list", "inventory_detail",
     "inventory_create", "inventory_update", "inventory_delete",
     "inventory_update_item", "inventory_complete", "inventory_reports"}

\* the views of accounting/views.py
AccountingViews ==
    {"accounting_dashboard", "account_category_list",
     "account_category_create", "account_category_update",
     "account_category_delete", "transaction_list", "transaction_create",
     "transaction_update", "transaction_delete", "invoice_list",
     "invoice_detail", "invoice_create", "invoice_update",
     "invoice_delete", "invoice_add_item", "invoice_item_delete",
     "invoice_add_payment", "accounting_reports"}

\* the views of bookings/views.py
BookingsViews ==
    {"bookings_dashboard", "location_list", "location_create",
     "location_update", "location_delete", "table_list", "table_create",
     "table_update", "table_delete", "reservation_list",
     "reservation_detail", "reservation_create",
     "reservation_quick_create", "reservation_update",
     "reservation_delete", "reservation_confirm", "reservation_cancel",
     "reservation_complete", "reservation_no_show",
     "reservation_calendar", "bookings_reports"}

\* the views of orders/views.py
OrdersViews ==
    {"orders_dashboard", "menu_category_list", "menu_category_create",
     "menu_category_update", "menu_category_delete", "menu_item_list",
     "menu_item_detail", "menu_item_create", "menu_item_update",
     "menu_item_delete", "menu_item_add_ingredient",
     "menu_item_ingredient_delete", "order_list", "order_detail",
     "order_create", "order_quick_create", "order_add_items",
     "order_item_delete", "order_confirm", "order_mark_ready",
     "order_mark_served", "order_mark_paid", "kitchen_display",
     "kitchen_ticket_start", "kitchen_ticket_complete", "orders_reports"}

\* the views of analytics/views.py
AnalyticsViews ==
    {"analytics_dashboard", "financial_reports", "hr_reports",
     "inventory_reports", "reservations_reports", "sales_reports"}

\* the views of a module
ViewsOf(module) ==
    CASE module = "personnel" -> PersonnelViews
      [] module = "inventory" -> InventoryViews
      [] module = "accounting" -> AccountingViews
      [] module = "bookings" -> BookingsViews
      [] module = "orders" -> OrdersViews
      [] module = "analytics" -> AnalyticsViews

\* the views decorated with @login_required alone
LoginOnlyViews == {<<"personnel", "leave_create">>}

\* the decorators of a view, applied to the user of the request: login_required
\* first, then user_passes_test where the view carries it
Served(module, view, authenticated, role) ==
    /\ authenticated
    /\ <<module, view>> \in LoginOnlyViews \/ ModuleTest(module, authenticated, role)

\* one request of a user to a view of a module
request_view(module, view, authenticated, role) ==
    /\ last' = [op |-> "request", module |-> module, view |-> view,
                authenticated |-> authenticated, role |-> role,
                result |-> IF Served(module, view, authenticated, role)
                           THEN "served" ELSE "redirected"]
    /\ UNCHANGED <<stockVars, invoiceVars, bookingVars, orderVars, inflight, rounding, inventory, purchase_orders>>

InitAccess ==
    /\ StockIdle
    /\ InvoiceIdle
    /\ BookingIdle
    /\ OrdersIdle
    /\ rounding = "ROUND_HALF_EVEN"
    /\ inflight = NoWorkers
    /\ last = NoRequest

NextAccess ==
    \E module \in Modules, authenticated \in BOOLEAN, role \in ROLE_CHOICES :
        \E view \in ViewsOf(module) : request_view(module, view, authenticated, role)

SpecAccess == InitAccess /\ [][NextAccess]_vars

\* the roles the module permissions are stated for
StatedRoles(module) ==
    CASE module = "personnel" -> {"ADMIN", "MANAGER"}
      [] module = "inventory" -> {"ADMIN", "MANAGER", "CHEF"}
      [] module = "accounting" -> {"ADMIN", "ACCOUNTANT"}
      [] module = "bookings" -> {"ADMIN", "MANAGER", "RECEPTIONIST"}
      [] module = "orders" -> {"ADMIN", "MANAGER", "WAITER", "CHEF", "COOK"}
      [] module = "analytics" -> {"ADMIN", "MANAGER"}

KitchenTicket_STATUS_CHOICES == {"NEW", "IN_PROGRESS", "COMPLETED"}

\* the timestamp field each transition method stamps
StampOf(status) ==
    CASE status = "CONFIRMED" -> "confirmed_at"
      [] status = "PREPARING" -> "preparing_at"
      [] status = "READY" -> "ready_at"
      [] status = "SERVED" -> "served_at"
      [] status = "PAID" -> "paid_at"

\* a plausible slip: mark_preparing() setting the status without its timestamp
Order_mark_NoPreparingStamp(row, status) ==
    IF status = "PREPARING" THEN [row EXCEPT !.status = status]
    ELSE [row EXCEPT !.status = status, ![StampOf(status)] = now]

\* Order.mark_confirmed(), mark_preparing(), mark_ready(), mark_served() and
\* the first lines of mark_paid(): the status and its timestamp, then save()
Order_mark(row, status) ==
    [row EXCEPT !.status = status, ![StampOf(status)] = now]

\* views.order_confirm: order.mark_confirmed(), then a KitchenTicket numbered
\* after the current second; ticket_number is unique
order_confirm(o) ==
    /\ orders[o].exists
    /\ orders' = [orders EXCEPT ![o] = Order_mark(@, "CONFIRMED")]
    /\ IF \E t \in tickets : t.ticket_number = now
       THEN /\ UNCHANGED tickets
            /\ last' = [op |-> "order_confirm", order |-> o, result |-> "IntegrityError"]
       ELSE /\ tickets' = tickets \cup
                 {[ticket_number |-> now, order |-> o, status |-> "NEW",
                   started_at |-> NoTime, completed_at |-> NoTime]}
            /\ last' = [op |-> "order_confirm", order |-> o, result |-> "ok"]
    /\ UNCHANGED <<order_items, categories, transactions, instance, now>>
    /\ UNCHANGED <<stockVars, invoiceVars, bookingVars, inflight, rounding, inventory, purchase_orders>>

\* views.order_mark_ready: order.mark_ready()
order_mark_ready(o) ==
    /\ orders[o].exists
    /\ orders' = [orders EXCEPT ![o] = Order_mark(@, "READY")]
    /\ last' = [op |-> "order_mark_ready", order |-> o, result |-> "ok"]
    /\ UNCHANGED <<order_items, categories, transactions, instance, tickets, now>>
    /\ UNCHANGED <<stockVars, invoiceVars, bookingVars, inflight, rounding, inventory, purchase_orders>>

\* views.order_mark_served: order.mark_served(request.user)
order_mark_served(o) ==
    /\ orders[o].exists
    /\ orders' = [orders EXCEPT ![o] =
                     [Order_mark(@, "SERVED") EXCEPT !.served_by = "user"]]
    /\ last' = [op |-> "order_mark_served", order |-> o, result |-> "ok"]
    /\ UNCHANGED <<order_items, categories, transactions, instance, tickets, now>>
    /\ UNCHANGED <<stockVars, invoiceVars, bookingVars, inflight, rounding, inventory, purchase_orders>>

\* views.kitchen_ticket_start: ticket.mark_in_progress(), which ends with
\* order.mark_preparing()
kitchen_ticket_start(t) ==
    /\ t \in tickets
    /\ tickets' = (tickets \ {t}) \cup
          {[t EXCEPT !.status = "IN_PROGRESS", !.started_at = now]}
    /\ orders' = [orders EXCEPT ![t.order] = Order_mark(@, "PREPARING")]
    /\ last' = [op |-> "kitchen_ticket_start", order |-> t.order,
                ticket |-> t.ticket_number, result |-> "ok"]
    /\ UNCHANGED <<order_items, categories, transactions, instance, now>>
    /\ UNCHANGED <<stockVars, invoiceVars, bookingVars, inflight, rounding, inventory, purchase_orders>>

\* views.kitchen_ticket_complete: ticket.mark_completed(), which ends with
\* order.mark_ready()
kitchen_ticket_complete(t) ==
    /\ t \in tickets
    /\ tickets' = (tickets \ {t}) \cup
          {[t EXCEPT !.status = "COMPLETED", !.completed_at = now]}
    /\ orders' = [orders EXCEPT ![t.order] = Order_mark(@, "READY")]
    /\ last' = [op |-> "kitchen_ticket_complete", order |-> t.order,
                ticket |-> t.ticket_number, result |-> "ok"]
    /\ UNCHANGED <<order_items, categories, transactions, instance, now>>
    /\ UNCHANGED <<stockVars, invoiceVars, bookingVars, inflight, rounding, inventory, purchase_orders>>

\* a second goes by
Tick ==
    /\ now + 1 \in Instants
    /\ now' = now + 1
    /\ UNCHANGED <<orders, order_items, categories, transactions, instance, tickets>>
    /\ UNCHANGED <<stockVars, invoiceVars, bookingVars, inflight, rounding, inventory, purchase_orders, last>>

\* the order workflow: the orders as they are taken, confirmed, cooked,
\* served and paid, no item on them
NextWorkflow ==
    \/ \E o \in Orders : order_quick_create(o)
    \/ \E o \in Orders : order_confirm(o)
    \/ \E o \in Orders : order_mark_ready(o)
    \/ \E o \in Orders : order_mark_served(o)
    \/ \E o \in Orders : order_mark_paid(o)
    \/ \E t \in tickets : kitchen_ticket_start(t)
    \/ \E t \in tickets : kitchen_ticket_complete(t)
    \/ \E c \in CategoryChoices : account_category_create(c)
    \/ Tick

SpecWorkflow == InitOrders /\ [][NextWorkflow]_vars


(* -------------------------- order workflow: claims --------------------- *)

\* the statuses a transition method sets
StampedStatuses == {"CONFIRMED", "PREPARING", "READY", "SERVED", "PAID"}

\* C14: each order transition operation sets the status to its target and
\* stamps the matching timestamp in the same persisted step, so in every state
\* reached through these operations an order whose status is CONFIRMED,
\* PREPARING, READY, SERVED or PAID has the timestamp of that status set.
C14_StatusStamped ==
    \A o \in Orders :
        (orders[o].exists /\ orders[o].status \in StampedStatuses)
            => orders[o][StampOf(orders[o].status)] \in Instants

\* an order confirmed in the first second and put in preparation by its
\* kitchen ticket in the second one
C14_Witness ==
    /\ last.op = "kitchen_ticket_start"
    /\ orders["o1"].status = "PREPARING"
    /\ orders["o1"].confirmed_at = 1
    /\ orders["o1"].preparing_at = 2
    /\ orders["o1"].ready_at = NoTime

\* C15 as stated: from each non-terminal order status (PENDING, CONFIRMED,
\* PREPARING, READY, SERVED) there is an operation of the order workflow that
\* takes the order to status CANCELLED.
C15_AsStated ==
    \A o \in Orders :
        (/\ orders[o].exists
         /\ orders[o].status \in {"PENDING", "CONFIRMED", "PREPARING", "READY", "SERVED"})
            => ENABLED (NextWorkflow /\ orders'[o].status = "CANCELLED")

\* the status each transition view sets
TargetOf(op) ==
    CASE op = "order_confirm" -> "CONFIRMED"
      [] op = "order_mark_ready" -> "READY"
      [] op = "order_mark_served" -> "SERVED"
      [] op = "order_mark_paid" -> "PAID"

\* C16 as stated: each of order_confirm, order_mark_ready, order_mark_served
\* and order_mark_paid succeeds from every current status and overwrites the
\* status with its target, so the status is not monotone along PENDING,
\* CONFIRMED, PREPARING, READY, SERVED, PAID.
C16_AsStated ==
    [][last'.op \in {"order_confirm", "order_mark_ready",
                     "order_mark_served", "order_mark_paid"}
          => /\ last'.result = "ok"
             /\ orders'[last'.order].status = TargetOf(last'.op)]_vars

\* the ticket of number n after the step, when there is one
TicketAfter(n) == {t \in tickets' : t.ticket_number = n}

\* C17, second half: starting a ticket sets the ticket to IN_PROGRESS and its
\* order to PREPARING, completing a ticket sets the ticket to COMPLETED and
\* its order to READY, whatever the order's status was before.
C17_TicketDrivesOrder ==
    [][/\ last'.op = "kitchen_ticket_start" =>
             /\ \A t \in TicketAfter(last'.ticket) : t.status = "IN_PROGRESS"
             /\ orders'[last'.order].status = "PREPARING"
       /\ last'.op = "kitchen_ticket_complete" =>
             /\ \A t \in TicketAfter(last'.ticket) : t.status = "COMPLETED"
             /\ orders'[last'.order].status = "READY"]_vars

\* C17 as stated: confirming an order (order_confirm) creates a companion
\* KitchenTicket in status NEW; starting a ticket sets the ticket to
\* IN_PROGRESS and its order to PREPARING, and completing a ticket sets the
\* ticket to COMPLETED and its order to READY, whatever the order's status
\* was before.
C17_AsStated ==
    [][/\ last'.op = "order_confirm" =>
             \E t \in tickets' \ tickets :
                 /\ tickets' = tickets \cup {t}
                 /\ t.order = last'.order
                 /\ t.status = "NEW"
       /\ last'.op = "kitchen_ticket_start" =>
             /\ \A t \in TicketAfter(last'.ticket) : t.status = "IN_PROGRESS"
             /\ orders'[last'.order].status = "PREPARING"
       /\ last'.op = "kitchen_ticket_complete" =>
             /\ \A t \in TicketAfter(last'.ticket) : t.status = "COMPLETED"
             /\ orders'[last'.order].status = "READY"]_vars


(* ------------------ stock ledger: deleting a movement ------------------ *)

\* a plausible slip: the deletion of a RETURN adding the quantity once more
MovementInverse_ReturnAdds(qty, movement_type, quantity) ==
    IF movement_type = "IN" THEN qty - quantity
    ELSE IF movement_type \in {"OUT", "WASTE"} THEN qty + quantity
    ELSE IF movement_type = "RETURN" THEN qty + quantity
    ELSE qty

\* the if/elif of views.stock_movement_delete: the product's quantity once
\* the movement's effect is taken back (no branch for ADJUSTMENT)
MovementInverse(qty, movement_type, quantity) ==
    IF movement_type = "IN" THEN qty - quantity
    ELSE IF movement_type \in {"OUT", "WASTE"} THEN qty + quantity
    ELSE IF movement_type = "RETURN" THEN qty - quantity
    ELSE qty

\* views.stock_movement_delete, POST: product.save() with the effect taken
\* back, then movement.delete()
stock_movement_delete(mv) ==
    /\ BagIn(mv, movements)
    /\ quantity_in_stock' = [quantity_in_stock EXCEPT ![mv.product] =
          MovementInverse(@, mv.movement_type, mv.quantity)]
    /\ movements' = movements (-) SetToBag({mv})
    /\ last' = [op |-> "stock_movement_delete"]
    /\ UNCHANGED <<minimum_stock, optimal_stock, initial_quantity>>
    /\ UNCHANGED notStock

NextLedger ==
    \/ NextStock
    \/ \E mv \in BagToSet(movements) : stock_movement_delete(mv)

SpecLedger == InitStock /\ [][NextLedger]_vars

\* the change StockMovement.save() makes to a quantity for a new movement
CreationDelta(movement_type, quantity) == MovementEffect(0, movement_type, quantity)

\* C18: deleting a stock movement through stock_movement_delete applies the
\* inverse delta: for every product and every movement of type IN, OUT, RETURN
\* or WASTE the deletion takes back exactly what the creation applied, so
\* creating the movement and then deleting it restores quantity_in_stock (with
\* no movement left the quantity is the one before any creation); deleting an
\* ADJUSTMENT movement leaves quantity_in_stock unchanged.
C18_DeleteInverse ==
    /\ [][\A mv \in BagToSet(movements) :
             (last'.op = "stock_movement_delete" /\ movements = movements' (+) SetToBag({mv}))
                => /\ quantity_in_stock'[mv.product] =
                         quantity_in_stock[mv.product]
                            - CreationDelta(mv.movement_type, mv.quantity)
                   /\ mv.movement_type = "ADJUSTMENT" =>
                         quantity_in_stock' = quantity_in_stock
                   /\ \A p \in Products \ {mv.product} :
                         quantity_in_stock'[p] = quantity_in_stock[p]]_vars
    /\ [](movements = EmptyBag => quantity_in_stock = initial_quantity)

\* every movement created has been deleted again, a RETURN last, and the
\* stock is back where it started
C18_Witness ==
    /\ last.op = "stock_movement_delete"
    /\ movements = EmptyBag
    /\ quantity_in_stock = initial_quantity
    /\ \E p \in Products : quantity_in_stock[p] > 0


(* ------------- stock: product edits and physical inventories ------------- *)

Inventories == {"inv1"}

\* movements on record when one more is entered by hand, at most
MaxLedger == 1

\* Inventory.STATUS_CHOICES
Inventory_STATUS_CHOICES == {"PLANNED", "IN_PROGRESS", "COMPLETED", "CANCELLED"}

\* the rows of the Product table
ProductRows == DOMAIN quantity_in_stock

\* quantities a ProductForm can submit for quantity_in_stock (MinValueValidator(0))
StockEntries == {0, InitialStock}

\* quantities counted on the shelves (InventoryItemForm.physical_quantity)
PhysicalQuantities == 0..MaxQuantity

\* views.product_update, POST with a valid ProductForm: form.save() stores
\* the submitted quantity_in_stock, minimum_stock and optimal_stock
product_update(p, quantity, th) ==
    /\ quantity_in_stock' = [quantity_in_stock EXCEPT ![p] = quantity]
    /\ minimum_stock' = [minimum_stock EXCEPT ![p] = th[1]]
    /\ optimal_stock' = [optimal_stock EXCEPT ![p] = th[2]]
    /\ last' = [op |-> "product_update", product |-> p]
    /\ UNCHANGED <<initial_quantity, movements, inventory, purchase_orders>>
    /\ UNCHANGED <<invoiceVars, bookingVars, orderVars, inflight, rounding, purchase_orders>>

\* views.inventory_create, POST with a valid InventoryForm (inventory_number
\* is unique): one InventoryItem per product, theoretical_quantity copied
\* from quantity_in_stock, physical_quantity 0
inventory_create(i, status) ==
    /\ ~inventory[i].exists
    /\ inventory' = [inventory EXCEPT ![i] =
          [exists |-> TRUE, status |-> status,
           items |-> [p \in ProductRows |->
                        [theoretical_quantity |-> quantity_in_stock[p],
                         physical_quantity |-> 0]]]]
    /\ last' = [op |-> "inventory_create"]
    /\ UNCHANGED stockVars
    /\ UNCHANGED <<invoiceVars, bookingVars, orderVars, inflight, rounding, purchase_orders>>

\* views.inventory_update_item, POST with a valid InventoryItemForm: the
\* counted quantity is stored (theoretical_quantity is a read-only input and
\* comes back as displayed)
inventory_update_item(i, p, physical) ==
    /\ inventory[i].exists
    /\ inventory' = [inventory EXCEPT ![i].items[p].physical_quantity = physical]
    /\ last' = [op |-> "inventory_update_item"]
    /\ UNCHANGED stockVars
    /\ UNCHANGED <<invoiceVars, bookingVars, orderVars, inflight, rounding, purchase_orders>>

\* Inventory.calculate_discrepancies(): the products whose counted quantity
\* differs from the theoretical one
calculate_discrepancies(i) ==
    {p \in DOMAIN inventory[i].items :
        inventory[i].items[p].physical_quantity
            - inventory[i].items[p].theoretical_quantity # 0}

Abs(n) == IF n < 0 THEN -n ELSE n

\* the ADJUSTMENT rows inventory_complete creates, one per discrepancy
AdjustmentMovements(i) ==
    {[product |-> p, movement_type |-> "ADJUSTMENT",
      quantity |-> Abs(inventory[i].items[p].physical_quantity
                         - inventory[i].items[p].theoretical_quantity)] :
        p \in calculate_discrepancies(i)}

\* views.inventory_complete, POST (no test of the inventory's status): per
\* discrepancy an ADJUSTMENT movement, which leaves the quantity alone, then
\* quantity_in_stock is set to the counted quantity; status COMPLETED
inventory_complete(i) ==
    /\ inventory[i].exists
    /\ BagCardinality(movements) + Cardinality(calculate_discrepancies(i)) <= MaxMovements
    /\ movements' = movements (+) SetToBag(AdjustmentMovements(i))
    /\ quantity_in_stock' =
         [p \in ProductRows |->
            IF p \in calculate_discrepancies(i)
            THEN inventory[i].items[p].physical_quantity
            ELSE quantity_in_stock[p]]
    /\ inventory' = [inventory EXCEPT ![i].status = "COMPLETED"]
    /\ last' = [op |-> "inventory_complete",
                adjustments |-> Cardinality(calculate_discrepancies(i))]
    /\ UNCHANGED <<minimum_stock, optimal_stock, initial_quantity>>
    /\ UNCHANGED <<invoiceVars, bookingVars, orderVars, inflight, rounding, purchase_orders>>

\* one product on the shelves, no movement and no inventory yet
InitInventory ==
    /\ quantity_in_stock = [p \in {"p1"} |-> InitialStock]
    /\ initial_quantity = quantity_in_stock
    /\ minimum_stock = [p \in {"p1"} |-> 2]
    /\ optimal_stock = [p \in {"p1"} |-> 4]
    /\ movements = EmptyBag
    /\ inventory = [i \in Inventories |-> NoRow]
    /\ purchase_orders = [o \in {} |-> NoRow]
    /\ InvoiceIdle
    /\ BookingIdle
    /\ OrdersIdle
    /\ rounding = "ROUND_HALF_EVEN"
    /\ inflight = NoWorkers
    /\ last = NoRequest

\* the submissions explored: receptions and issues, a product form that
\* changes the quantity and sends the thresholds back as displayed, an
\* inventory opened as planned or in progress
NextInventory ==
    \/ \E p \in ProductRows, t \in {"IN", "OUT"}, q \in MovementQuantities :
          /\ BagCardinality(movements) < MaxLedger
          /\ stock_movement_create(p, t, q)
    \/ \E mv \in BagToSet(movements) : stock_movement_delete(mv)
    \/ \E p \in ProductRows, q \in StockEntries :
          product_update(p, q, <<minimum_stock[p], optimal_stock[p]>>)
    \/ \E i \in Inventories, st \in {"PLANNED", "IN_PROGRESS"} : inventory_create(i, st)
    \/ \E i \in Inventories, p \in ProductRows, q \in PhysicalQuantities :
          inventory_update_item(i, p, q)
    \/ \E i \in Inventories : inventory_complete(i)

SpecInventory == InitInventory /\ [][NextInventory]_vars

\* C19: Product.quantity_in_stock is mutated only by StockMovement.save(): in
\* every state reachable through movement creation and deletion, inventory
\* completion and product edit, what is left of quantity_in_stock once the
\* signed sum of the recorded IN, OUT, RETURN and WASTE movements is taken
\* away is the product's initial quantity.
C19_AsStated ==
    \A p \in ProductRows :
        quantity_in_stock[p] - SignedSum(p) = initial_quantity[p]


\* what C19 leaves standing: a request other than product_update and
\* inventory_complete keeps each product's distance to its ledger
C19_LedgerKeptElsewhere ==
    [][last'.op \notin {"product_update", "inventory_complete"}
          => \A p \in ProductRows :
                quantity_in_stock'[p] - SignedSum(p)' = quantity_in_stock[p] - SignedSum(p)]_vars


(* --------------- booking chain: closed reservations ------------------- *)

\* the rows that hold the table, date and slot of key
HoldersOf(key) == {r \in ReservationIds : KeyOf(reservations[r]) = key}

\* C20: the reservation uniqueness rule applies among active reservations
\* only: when the only reservation for a (table, reservation_date, time_slot)
\* has status CANCELLED, COMPLETED or NO_SHOW, so that Table.is_available_at
\* returns true for it, a reservation_create request for the same table, date
\* and slot succeeds and adds the row.
C20_AsStated ==
    [][(/\ last'.op = "reservation_create"
        /\ last'.key[1] # NoTable
        /\ Cardinality(HoldersOf(last'.key)) = 1
        /\ \A r \in HoldersOf(last'.key) :
              reservations[r].status \in {"CANCELLED", "COMPLETED", "NO_SHOW"}
        /\ is_available_at(last'.key[1], last'.key[2], last'.key[3]))
          => /\ last'.result = "created"
             /\ next_reservation' = next_reservation + 1]_vars


(* ------------------ booking chain: slot capacity ----------------------- *)

\* the TimeSlotAvailability rows (entered through the admin site): the lunch
\* slot of d1 takes one reservation, the smallest max_reservations the
\* validator admits, the dinner slot takes two
TimeSlotAvailabilities ==
    {[date |-> "d1", time_slot |-> "12:00", max_reservations |-> 1],
     [date |-> "d1", time_slot |-> "19:00", max_reservations |-> 2]}

\* TimeSlotAvailability.get_current_reservations()
get_current_reservations(ts) ==
    Cardinality({r \in ReservationIds :
        /\ reservations[r].reservation_date = ts.date
        /\ reservations[r].time_slot = ts.time_slot
        /\ reservations[r].status \in {"PENDING", "CONFIRMED"}})

\* TimeSlotAvailability.get_available_spots()
get_available_spots(ts) == ts.max_reservations - get_current_reservations(ts)

\* TimeSlotAvailability.is_fully_booked()
is_fully_booked(ts) == get_available_spots(ts) <= 0

\* C21: for every TimeSlotAvailability record, in every state reached by
\* sequential reservation creations, confirmations and edits, the number of
\* PENDING or CONFIRMED reservations for its date and time_slot does not
\* exceed max_reservations: get_available_spots() is never negative.
C21_AsStated ==
    \A ts \in TimeSlotAvailabilities : get_available_spots(ts) >= 0


(* -------------------- booking chain: audit trail ----------------------- *)

\* one more ReservationHistory row for reservation r with this action, the
\* rows already there untouched
HistoryAppended(r, action) ==
    history' = history (+) SetToBag({[reservation |-> r, action |-> action]})

\* the reservations of both ends of a step whose status the step changed
StatusChanged ==
    {r \in ReservationIds :
        /\ reservations'[r].exists
        /\ reservations'[r].status # reservations[r].status}

\* what C22 leaves standing: a creation appends one CREATED row, a
\* confirmation one CONFIRMED row, a cancellation, completion or no-show one
\* row of that name, and only reservation_delete removes rows
C22_AppendOnly ==
    [][/\ (last'.op \in {"reservation_create", "reservation_quick_create"}
             /\ last'.result = "created")
          => HistoryAppended(next_reservation, "CREATED")
       /\ last'.op \in {"reservation_confirm", "reservation_close"}
          => \E r \in ReservationIds :
                HistoryAppended(r, reservations'[r].status)
       /\ last'.op # "reservation_delete" => history \sqsubseteq history']_vars

\* C22: the reservation audit trail is append-only and complete: each
\* creation, confirmation, cancellation, completion and no-show appends
\* exactly one ReservationHistory record with the matching action, every
\* change of a reservation's status comes with a record whose action names
\* the new status, and no operation other than deleting the reservation
\* modifies or removes an existing record.
C22_AsStated ==
    [][/\ (last'.op \in {"reservation_create", "reservation_quick_create"}
             /\ last'.result = "created")
          => HistoryAppended(next_reservation, "CREATED")
       /\ \A r \in StatusChanged : HistoryAppended(r, reservations'[r].status)
       /\ last'.op # "reservation_delete" => history \sqsubseteq history']_vars


\* C23: in every reachable state, a reservation whose status is CONFIRMED
\* has its confirmer (confirmed_by) and its confirmation timestamp
\* (confirmed_at) recorded.
C23_AsStated ==
    \A r \in ReservationIds :
        reservations[r].status = "CONFIRMED"
            => /\ reservations[r].confirmed_by # "None"
               /\ reservations[r].confirmed_at # "None"

\* what C23 leaves standing: Reservation.confirm() records both
C23_ConfirmRecords ==
    [][last'.op = "reservation_confirm"
          => \E r \in ReservationIds :
                /\ reservations'[r].status = "CONFIRMED"
                /\ reservations'[r].confirmed_by # "None"
                /\ reservations'[r].confirmed_at # "None"]_vars


(* ------------- stock ledger: two movements side by side ---------------- *)

\* a plausible slip: the quantity updated in the database (an F() expression
\* or a row lock) instead of being computed on the request's own copy
ProductWrite_InDatabase(stored, copy, movement_type, quantity) ==
    MovementEffect(stored, movement_type, quantity)

\* the value product.save() writes in StockMovement.save(): the effect of the
\* movement on the copy of the product the request holds, whatever the
\* database stores by then
ProductWrite(stored, copy, movement_type, quantity) ==
    MovementEffect(copy, movement_type, quantity)

\* stock_movement_create, POST, up to form.is_valid(): the form's product
\* field loads the request's own copy of the Product row
stock_movement_create_load(w, p, movement_type, quantity) ==
    /\ inflight[w].pc = "waiting"
    /\ inflight' = [inflight EXCEPT ![w] =
          [pc |-> "loaded", product |-> p, movement_type |-> movement_type,
           quantity |-> quantity, quantity_in_stock |-> quantity_in_stock[p]]]
    /\ last' = [op |-> "stock_movement_create_load", worker |-> w]
    /\ UNCHANGED <<stockVars, invoiceVars, bookingVars, orderVars, rounding, inventory, purchase_orders>>

\* StockMovement.save(), first half: the copy's quantity is changed and
\* self.product.save() writes it
stock_movement_create_product_save(w) ==
    /\ inflight[w].pc = "loaded"
    /\ quantity_in_stock' = [quantity_in_stock EXCEPT ![inflight[w].product] =
          ProductWrite(@, inflight[w].quantity_in_stock,
                       inflight[w].movement_type, inflight[w].quantity)]
    /\ inflight' = [inflight EXCEPT ![w].pc = "product_saved"]
    /\ last' = [op |-> "stock_movement_create_product_save", worker |-> w]
    /\ UNCHANGED <<minimum_stock, optimal_stock, initial_quantity, movements>>
    /\ UNCHANGED <<invoiceVars, bookingVars, orderVars, rounding, inventory, purchase_orders>>

\* StockMovement.save(), second half: super().save() inserts the movement
stock_movement_create_insert(w) ==
    /\ inflight[w].pc = "product_saved"
    /\ movements' = movements (+) SetToBag(
          {[product |-> inflight[w].product,
            movement_type |-> inflight[w].movement_type,
            quantity |-> inflight[w].quantity]})
    /\ inflight' = [inflight EXCEPT ![w].pc = "done"]
    /\ last' = [op |-> "stock_movement_create_insert", worker |-> w]
    /\ UNCHANGED <<quantity_in_stock, minimum_stock, optimal_stock, initial_quantity>>
    /\ UNCHANGED <<invoiceVars, bookingVars, orderVars, rounding, inventory, purchase_orders>>

InitStockRace ==
    /\ quantity_in_stock \in [Products -> {0, InitialStock}]
    /\ initial_quantity = quantity_in_stock
    /\ minimum_stock = [p \in Products |-> 2]
    /\ optimal_stock = [p \in Products |-> 4]
    /\ movements = EmptyBag
    /\ inventory = [i \in {} |-> NoRow]
    /\ purchase_orders = [o \in {} |-> NoRow]
    /\ InvoiceIdle
    /\ BookingIdle
    /\ OrdersIdle
    /\ inflight = [w \in Workers |-> Waiting]
    /\ rounding = "ROUND_HALF_EVEN"
    /\ last = NoRequest

NextStockRace ==
    \/ \E w \in Workers, p \in Products, t \in MOVEMENT_TYPE_CHOICES,
          q \in MovementQuantities : stock_movement_create_load(w, p, t, q)
    \/ \E w \in Workers : stock_movement_create_product_save(w)
    \/ \E w \in Workers : stock_movement_create_insert(w)

SpecStockRace == InitStockRace /\ [][NextStockRace]_vars

\* C24: two StockMovement creations against the same product whose
\* read-modify-write steps interleave, each request holding its own copy of
\* the product, can lose one update: the last write of the quantity wins.
\* Every write stores the movement's effect on the writer's own copy, so the
\* quantity just written reflects the writer's movement and nothing a
\* request wrote since the copy was taken, and both movement records are
\* persisted once both requests are done.
C24_LastWriteWins ==
    /\ [][\A w \in Workers :
             (inflight[w].pc = "loaded" /\ inflight'[w].pc = "product_saved")
                => quantity_in_stock'[inflight[w].product] =
                      MovementEffect(inflight[w].quantity_in_stock,
                                     inflight[w].movement_type, inflight[w].quantity)]_vars
    /\ []((\A w \in Workers : inflight[w].pc = "done")
             => BagCardinality(movements) = Cardinality(Workers))

\* both requests read the same product before either wrote, both are done and
\* both rows are stored, and the quantity shows one movement only
C24_Witness ==
    /\ \A w \in Workers : inflight[w].pc = "done"
    /\ BagCardinality(movements) = 2
    /\ \E p \in Products :
          /\ \A w \in Workers :
                /\ inflight[w].product = p
                /\ inflight[w].quantity_in_stock = initial_quantity[p]
                /\ inflight[w].movement_type \in {"IN", "OUT", "RETURN", "WASTE"}
          /\ quantity_in_stock[p] # initial_quantity[p] + SignedSum(p)
          /\ \E w \in Workers :
                quantity_in_stock[p] =
                   MovementEffect(initial_quantity[p], inflight[w].movement_type,
                                  inflight[w].quantity)


(* ------------ orders: a stock deduction that raises mid-way ------------ *)

\* how far below zero a failing request may leave a product's stock, at most
MaxDeficit == 1

\* a plausible slip: the request wrapped in a transaction, its writes undone
\* when the exception leaves the view
Committed_Atomic(before, written) == before

\* what a table holds once an exception has left the view: no
\* transaction.atomic around the saves, so every write already made stays
Committed(before, written) == written

\* the stock once the deductions of the rows are applied
StockAfter(rows) ==
    [p \in DOMAIN quantity_in_stock |->
        IF \E mv \in rows : mv.product = p
        THEN MovementEffect(quantity_in_stock[p], "OUT",
                (CHOOSE mv \in rows : mv.product = p).quantity)
        ELSE quantity_in_stock[p]]

\* views.order_add_items, POST with a valid OrderItemForm, when a
\* StockMovement.objects.create of deduct_from_inventory() raises: the item
\* is stored by super().save(), the movements in `created` were saved whole,
\* the one in `half` (if any) raised between its product.save() and its own
\* INSERT, the others were not reached; the exception leaves the view before
\* order.calculate_totals() and order.save()
order_add_items_raise(o, m, quantity, created, half) ==
    LET item == [order |-> o, menu_item |-> m, quantity |-> quantity,
                 unit_price |-> MenuItem_price[m]]
        rows == DeductionMovements(m, quantity)
    IN  /\ orders[o].exists
        /\ track_inventory[m]
        /\ created \subseteq rows /\ created # rows
        /\ half \subseteq rows \ created /\ Cardinality(half) <= 1
        /\ BagCardinality(order_items) < MaxOrderItems
        /\ BagCardinality(movements) + Cardinality(created) <= MaxMovements
        /\ \A p \in DOMAIN quantity_in_stock :
              StockAfter(created \cup half)[p] >= 0 - MaxDeficit
        /\ order_items' = Committed(order_items, order_items (+) SetToBag({item}))
        /\ movements' = Committed(movements, movements (+) SetToBag(created))
        /\ quantity_in_stock' = Committed(quantity_in_stock, StockAfter(created \cup half))
        /\ last' = [op |-> "order_add_items", order |-> o, result |-> "error",
                    item |-> item, created |-> created, half |-> half]
        /\ UNCHANGED <<minimum_stock, optimal_stock, initial_quantity>>
        /\ UNCHANGED <<orders, categories, transactions, instance, tickets, now>>
        /\ UNCHANGED <<invoiceVars, bookingVars, inflight, rounding, inventory, purchase_orders>>

NextDeduction ==
    \/ \E o \in Orders : order_quick_create(o)
    \/ \E o \in Orders, m \in MenuItems, q \in ItemQuantities : order_add_items(o, m, q)
    \/ \E o \in Orders, m \in MenuItems, q \in ItemQuantities :
          \E created \in SUBSET DeductionMovements(m, q) :
             \E half \in SUBSET (DeductionMovements(m, q) \ created) :
                order_add_items_raise(o, m, q, created, half)
    \/ \E item \in BagToSet(order_items) : order_item_delete(item)

SpecDeduction == InitOrders /\ [][NextDeduction]_vars

\* the part of C25 that does not depend on where the exception is raised: the
\* item is stored, the movements created before the exception stay, the
\* others are never created, and the order's stored totals are left as they were
NoCompensation ==
    /\ order_items' = order_items (+) SetToBag({last'.item})
    /\ movements' = movements (+) SetToBag(last'.created)
    /\ last'.created # DeductionMovements(last'.item.menu_item, last'.item.quantity)
    /\ orders' = orders

\* C25 as stated: if the stock deduction raises while an order item is being
\* added, after k of the dish's n ingredient movements were created, no
\* compensation happens: the OrderItem stays persisted, the k movements and
\* their stock decrements stay applied, the remaining n - k are never
\* applied, and the order's stored totals are not recomputed for the new item.
C25_AsStated ==
    [][(last'.op = "order_add_items" /\ last'.result = "error")
          => /\ NoCompensation
             /\ quantity_in_stock' = StockAfter(last'.created)]_vars

\* C25, amended: if the stock deduction raises while an order item is being
\* added, after k of the dish's n ingredient movements were created, no
\* compensation happens: the OrderItem stays persisted, the k movements and
\* their stock decrements stay applied, the remaining n - k movements are
\* never created, and the order's stored totals are not recomputed; the
\* decrement of the movement that raised stays applied too when the exception
\* came after its product.save(), so the stock is lowered for the k movements
\* and for at most one more ingredient.
C25_NoCompensation ==
    [][(last'.op = "order_add_items" /\ last'.result = "error")
          => /\ NoCompensation
             /\ \E extra \in SUBSET (DeductionMovements(last'.item.menu_item,
                                        last'.item.quantity) \ last'.created) :
                   /\ Cardinality(extra) <= 1
                   /\ quantity_in_stock' = StockAfter(last'.created \cup extra)]_vars

\* the deduction of the dish with two ingredients raised after one movement:
\* the item and that movement are stored, the other ingredient's stock is
\* untouched and the order's subtotal does not count the item
C25_Witness ==
    /\ last.op = "order_add_items"
    /\ last.result = "error"
    /\ Cardinality(last.created) = 1
    /\ last.half = {}
    /\ BagIn(last.item, order_items)
    /\ \A mv \in last.created : BagIn(mv, movements)
    /\ \E p \in Products : quantity_in_stock[p] = initial_quantity[p]
    /\ \E p \in Products : quantity_in_stock[p] < initial_quantity[p]
    /\ LastOrder.subtotal * CentScale < LastOrderSubtotal


(* ------------------- invoice chain: amount paid ------------------------ *)

RECURSIVE SumAmounts(_, _)
\* the sum of the amounts of the rows of bag B whose kind is in S
SumAmounts(B, S) ==
    IF S = {} THEN 0
    ELSE LET pm == CHOOSE x \in S : TRUE
         IN  CopiesIn(pm, B) * pm.amount + SumAmounts(B, S \ {pm})

\* the sum of the payments recorded against invoice i
PaymentsOf(i) == SumAmounts(payments, {pm \in BagToSet(payments) : pm.invoice = i})

\* C26: for every invoice, after any sequential sequence of payment
\* creations, invoice edits and item additions or removals, paid_amount is
\* the sum of the amounts of the payments recorded against the invoice, so
\* remaining_balance() is total_amount minus that sum.
C26_PaidIsSumOfPayments ==
    \A i \in Invoices :
        invoices[i].exists
            => /\ invoices[i].paid_amount = PaymentsOf(i)
               /\ remaining_balance(invoices[i]) = invoices[i].total_amount - PaymentsOf(i)

\* two payments of different positive amounts recorded against an invoice
\* that still has items: a cent first, the balance second
C26_Witness ==
    /\ last.op = "invoice_add_payment"
    /\ invoices[last.invoice].exists
    /\ invoices[last.invoice].total_amount > 0
    /\ \E a, b \in BagToSet(payments) :
          /\ a.invoice = last.invoice /\ b.invoice = last.invoice
          /\ a.amount > 0 /\ b.amount > a.amount
    /\ invoices[last.invoice].paid_amount = PaymentsOf(last.invoice)
    /\ remaining_balance(invoices[last.invoice]) = 0


(* ------------------ stock ledger: stock below zero --------------------- *)

\* C27: Product.quantity_in_stock is never negative in any reachable state:
\* no sequence of stock movements, order item insertions and movement
\* deletions brings a product's on-hand quantity below 0.
C27_AsStated ==
    \A p \in DOMAIN quantity_in_stock : ~(quantity_in_stock[p] < 0)


(* -------------------- stock: purchase orders --------------------------- *)

PurchaseOrders == {"po1"}

\* lines a purchase order holds, at most
MaxLines == 2

\* PurchaseOrder.STATUS_CHOICES
PurchaseOrder_STATUS_CHOICES == {"DRAFT", "SENT", "CONFIRMED", "RECEIVED", "CANCELLED"}

\* quantities a PurchaseOrderItemForm can submit as ordered
OrderedQuantities == 1..MaxQuantity

\* quantities a PurchaseOrderItemForm can submit as already received
\* (MinValueValidator(0), nothing ties it to the ordered quantity): nothing,
\* one unit, more than any quantity ordered
ReceivedQuantities == {0, 1, MaxQuantity + 1}

\* PurchaseOrderItem.unit_price, as the supplier's price of the product
PurchasePrice == [p \in Products |-> IF p = "p1" THEN 100 ELSE 250]

RECURSIVE PurchaseOrder_calculate_total(_)
\* PurchaseOrder.calculate_total() over the order's lines
PurchaseOrder_calculate_total(lines) ==
    IF lines = <<>> THEN 0
    ELSE Head(lines).quantity * PurchasePrice[Head(lines).product]
            + PurchaseOrder_calculate_total(Tail(lines))

\* views.purchase_order_create, POST with a valid PurchaseOrderForm
\* (order_number is unique)
purchase_order_create(po, status) ==
    /\ ~purchase_orders[po].exists
    /\ purchase_orders' = [purchase_orders EXCEPT ![po] =
          [exists |-> TRUE, status |-> status, items |-> <<>>, total_amount |-> 0]]
    /\ last' = [op |-> "purchase_order_create", purchase_order |-> po]
    /\ UNCHANGED <<stockVars, inventory>>
    /\ UNCHANGED <<invoiceVars, bookingVars, orderVars, inflight, rounding>>

\* views.purchase_order_add_item, POST with a valid PurchaseOrderItemForm:
\* the line, then order.calculate_total() and order.save()
purchase_order_add_item(po, p, quantity, received_quantity) ==
    /\ purchase_orders[po].exists
    /\ Len(purchase_orders[po].items) < MaxLines
    /\ LET lines == Append(purchase_orders[po].items,
                       [product |-> p, quantity |-> quantity,
                        received_quantity |-> received_quantity])
       IN  purchase_orders' = [purchase_orders EXCEPT
              ![po].items = lines,
              ![po].total_amount = PurchaseOrder_calculate_total(lines)]
    /\ last' = [op |-> "purchase_order_add_item", purchase_order |-> po]
    /\ UNCHANGED <<stockVars, inventory>>
    /\ UNCHANGED <<invoiceVars, bookingVars, orderVars, inflight, rounding>>

\* views.purchase_order_item_delete, POST: the line goes, then
\* order.calculate_total() and order.save()
purchase_order_item_delete(po, n) ==
    /\ purchase_orders[po].exists
    /\ n \in 1..Len(purchase_orders[po].items)
    /\ LET old == purchase_orders[po].items
           lines == [k \in 1..(Len(old) - 1) |-> IF k < n THEN old[k] ELSE old[k + 1]]
       IN  purchase_orders' = [purchase_orders EXCEPT
              ![po].items = lines,
              ![po].total_amount = PurchaseOrder_calculate_total(lines)]
    /\ last' = [op |-> "purchase_order_item_delete", purchase_order |-> po]
    /\ UNCHANGED <<stockVars, inventory>>
    /\ UNCHANGED <<invoiceVars, bookingVars, orderVars, inflight, rounding>>

\* a plausible slip: the test on the received quantity left out
NeedsReception_Always(line) == TRUE

\* `if item.received_quantity < item.quantity` of purchase_order_receive
NeedsReception(line) == line.received_quantity < line.quantity

\* qty_to_receive of purchase_order_receive
qty_to_receive(line) == line.quantity - line.received_quantity

\* the lines of the order a reception has something to do for
LinesToReceive(po) ==
    {n \in 1..Len(purchase_orders[po].items) : NeedsReception(purchase_orders[po].items[n])}

RECURSIVE ReceptionMovements(_, _)
\* the StockMovement rows purchase_order_receive creates for the lines in S
\* of the order, as a bag (two lines may give the same row)
ReceptionMovements(po, S) ==
    IF S = {} THEN EmptyBag
    ELSE LET n == CHOOSE x \in S : TRUE
             line == purchase_orders[po].items[n]
         IN  SetToBag({[product |-> line.product, movement_type |-> "IN",
                        quantity |-> qty_to_receive(line)]})
                (+) ReceptionMovements(po, S \ {n})

RECURSIVE ReceptionStock(_, _, _)
\* the stock after StockMovement.save() has run for each line in S of the order
ReceptionStock(stock, po, S) ==
    IF S = {} THEN stock
    ELSE LET n == CHOOSE x \in S : TRUE
             line == purchase_orders[po].items[n]
         IN  ReceptionStock(
                [stock EXCEPT ![line.product] =
                    MovementEffect(@, "IN", qty_to_receive(line))],
                po, S \ {n})

\* views.purchase_order_receive, POST (no test of the order's status): an IN
\* movement per line not yet received in full, whose received_quantity
\* becomes the ordered quantity; then status RECEIVED
purchase_order_receive(po) ==
    /\ purchase_orders[po].exists
    /\ BagCardinality(movements) + Cardinality(LinesToReceive(po)) <= MaxMovements
    /\ movements' = movements (+) ReceptionMovements(po, LinesToReceive(po))
    /\ quantity_in_stock' = ReceptionStock(quantity_in_stock, po, LinesToReceive(po))
    /\ LET old == purchase_orders[po].items
       IN  purchase_orders' = [purchase_orders EXCEPT
              ![po].status = "RECEIVED",
              ![po].items = [n \in 1..Len(old) |->
                                IF n \in LinesToReceive(po)
                                THEN [old[n] EXCEPT !.received_quantity = old[n].quantity]
                                ELSE old[n]]]
    /\ last' = [op |-> "purchase_order_receive", purchase_order |-> po]
    /\ UNCHANGED <<minimum_stock, optimal_stock, initial_quantity, inventory>>
    /\ UNCHANGED <<invoiceVars, bookingVars, orderVars, inflight, rounding>>

InitPurchase ==
    /\ quantity_in_stock = [p \in Products |-> InitialStock]
    /\ initial_quantity = quantity_in_stock
    /\ minimum_stock = [p \in Products |-> 2]
    /\ optimal_stock = [p \in Products |-> 4]
    /\ movements = EmptyBag
    /\ inventory = [i \in {} |-> NoRow]
    /\ purchase_orders = [po \in PurchaseOrders |-> NoRow]
    /\ InvoiceIdle
    /\ BookingIdle
    /\ OrdersIdle
    /\ rounding = "ROUND_HALF_EVEN"
    /\ inflight = NoWorkers
    /\ last = NoRequest

NextPurchase ==
    \/ \E po \in PurchaseOrders, st \in {"DRAFT", "RECEIVED"} :
          purchase_order_create(po, st)
    \/ \E po \in PurchaseOrders, p \in Products, q \in OrderedQuantities,
          r \in ReceivedQuantities : purchase_order_add_item(po, p, q, r)
    \/ \E po \in PurchaseOrders, n \in 1..MaxLines : purchase_order_item_delete(po, n)
    \/ \E po \in PurchaseOrders : purchase_order_receive(po)

SpecPurchase == InitPurchase /\ [][NextPurchase]_vars


\* the lines of the order not yet received in full
OpenLines(po) ==
    {n \in 1..Len(purchase_orders[po].items) :
        purchase_orders[po].items[n].received_quantity
            < purchase_orders[po].items[n].quantity}

RECURSIVE OpenQuantity(_, _, _)
\* what is still to come of product p over the lines in S of the order
OpenQuantity(po, p, S) ==
    IF S = {} THEN 0
    ELSE LET n == CHOOSE x \in S : TRUE
             line == purchase_orders[po].items[n]
         IN  (IF line.product = p THEN line.quantity - line.received_quantity ELSE 0)
                + OpenQuantity(po, p, S \ {n})

\* the order the last request was about
LastPurchase == purchase_orders[last.purchase_order]

\* C28 as stated: receiving a purchase order is idempotent on stock: the
\* first reception raises each line's product quantity by quantity -
\* received_quantity through one IN movement and sets received_quantity =
\* quantity and status RECEIVED; receiving the same unchanged order again
\* creates no movement and changes no product quantity.
C28_AsStated ==
    [][last'.op = "purchase_order_receive" =>
         LET po == last'.purchase_order
             all == 1..Len(purchase_orders[po].items)
         IN  /\ \A p \in Products :
                   quantity_in_stock'[p] = quantity_in_stock[p] + OpenQuantity(po, p, all)
             /\ \A n \in all :
                   purchase_orders'[po].items[n].received_quantity =
                      purchase_orders[po].items[n].quantity
             /\ purchase_orders'[po].status = "RECEIVED"
             /\ last.op = "purchase_order_receive"
                   => /\ movements' = movements
                      /\ quantity_in_stock' = quantity_in_stock]_vars

\* C28, amended: receiving a purchase order is idempotent on stock: a
\* reception raises, for each line whose received_quantity is below its
\* quantity, the product's quantity by quantity - received_quantity through
\* one IN movement and sets that line's received_quantity = quantity; a line
\* already received in full or beyond is left as it is, with no movement; the
\* status becomes RECEIVED; receiving the same unchanged order again creates
\* no movement and changes no product quantity.
C28_ReceiveIdempotent ==
    [][last'.op = "purchase_order_receive" =>
         LET po == last'.purchase_order
             all == 1..Len(purchase_orders[po].items)
         IN  /\ \A p \in Products :
                   quantity_in_stock'[p] =
                      quantity_in_stock[p] + OpenQuantity(po, p, OpenLines(po))
             /\ BagCardinality(movements') =
                   BagCardinality(movements) + Cardinality(OpenLines(po))
             /\ \A n \in OpenLines(po) :
                   /\ purchase_orders'[po].items[n].received_quantity =
                         purchase_orders[po].items[n].quantity
                   /\ BagIn([product |-> purchase_orders[po].items[n].product,
                             movement_type |-> "IN",
                             quantity |-> purchase_orders[po].items[n].quantity
                                - purchase_orders[po].items[n].received_quantity],
                            movements')
             /\ \A n \in all \ OpenLines(po) :
                   purchase_orders'[po].items[n] = purchase_orders[po].items[n]
             /\ purchase_orders'[po].status = "RECEIVED"
             /\ last.op = "purchase_order_receive"
                   => /\ movements' = movements
                      /\ quantity_in_stock' = quantity_in_stock]_vars

\* an order with an open line and a line entered as received beyond its
\* quantity has been received: one movement only, the stock raised for the
\* open line alone
C28_Witness ==
    /\ last.op = "purchase_order_receive"
    /\ LastPurchase.status = "RECEIVED"
    /\ Len(LastPurchase.items) = 2
    /\ \E n \in 1..2 : LastPurchase.items[n].received_quantity > LastPurchase.items[n].quantity
    /\ \E n \in 1..2 : LastPurchase.items[n].received_quantity = LastPurchase.items[n].quantity
    /\ BagCardinality(movements) = 1
    /\ \E p \in Products : quantity_in_stock[p] = initial_quantity[p] + SignedSum(p)
                              /\ quantity_in_stock[p] > initial_quantity[p]


(* ---------------- orders and revenue: one transaction ------------------ *)

\* the Transaction rows numbered TXN-<order_number> of order o
RevenueOf(o) == {t \in transactions : t.transaction_number = o}

\* C29: an order never has more than one revenue Transaction: after any
\* sequence of order operations, including marking an already PAID order paid
\* again, at most one Transaction numbered TXN-<order_number> exists and the
\* ledger holds the order's revenue at most once.
C29_OneRevenue ==
    \A o \in Orders : Cardinality(RevenueOf(o)) <= 1

\* an order marked paid a second time after its total had changed: the
\* request was refused by the unique index and the one transaction of the
\* first payment is all the ledger holds
C29_Witness ==
    /\ last.op = "order_mark_paid"
    /\ last.result = "IntegrityError"
    /\ orders[last.order].status = "PAID"
    /\ Cardinality(RevenueOf(last.order)) = 1
    /\ \E t \in RevenueOf(last.order) : t.amount # orders[last.order].total_amount


(* ------------------ orders: removing an order item --------------------- *)

\* C30: removing an order item (order_item_delete) leaves the stock ledger
\* untouched: the StockMovements created when the item was inserted remain
\* and every product's quantity_in_stock is unchanged, while the order's
\* totals are recomputed without the item (the stored subtotal is the sum
\* over the items left, tax and total follow from it).
C30_DeleteKeepsStock ==
    [][last'.op = "order_item_delete" =>
         /\ movements' = movements
         /\ quantity_in_stock' = quantity_in_stock
         /\ BagCardinality(order_items') = BagCardinality(order_items) - 1
         /\ orders'[last'.order].subtotal * CentScale =
               SumOrderLines(order_items', OrderItemsOf(order_items', last'.order))
         /\ orders'[last'.order].tax_amount =
               DecimalStore((SumOrderLines(order_items',
                                OrderItemsOf(order_items', last'.order))
                             * orders[last'.order].tax_rate) \div 100)]_vars

\* the only item of an order, a tracked dish, was removed: its two OUT
\* movements are still recorded, both stocks are still lower, and the order's
\* subtotal is back to zero
C30_Witness ==
    /\ last.op = "order_item_delete"
    /\ order_items = EmptyBag
    /\ LastOrder.subtotal = 0
    /\ BagCardinality(movements) = 2
    /\ \A mv \in BagToSet(movements) : mv.movement_type = "OUT"
    /\ \A p \in Products : quantity_in_stock[p] < initial_quantity[p]

====
